---------------------------- MODULE Spec2Model ----------------------------
(***************************************************************************)
(* A model of the ErgoTree evaluator of sigma-rust: BinOp::eval            *)
(* (ergotree-ir/src/mir/bin_op.rs) and If::eval (ergo-lib/src/ast/         *)
(* if_op.rs), with the checked fixed-width arithmetic, the relations, the  *)
(* lazy And / Or / If and the cost accumulator.                            *)
(*                                                                         *)
(* An evaluation is one call of Expr::eval on a root expression; it is     *)
(* translated as the recursive operator Expr_eval, which threads the       *)
(* EvalContext (cost_accum) through the calls exactly as `&mut ctx` does   *)
(* and records, in ctx.visited, the nodes whose eval was entered, in the   *)
(* order they were entered (a history of the calls made).                  *)
(*                                                                         *)
(* The other components are modelled beside it, each with a specification  *)
(* of its own over the same variables: the construction, identifier,      *)
(* signing bytes and JSON form of UnsignedTransaction (TxSpec), the C      *)
(* binding unsigned_tx_from_json (FfiSpec), the serialization of If        *)
(* (SerSpec) and the serialization of PeerAddr (PeerSpec).                 *)
(***************************************************************************)
EXTENDS Integers, Sequences, FiniteSets, TLC

(***************************************************************************)
(* Host integers.  TLC's integers are 32 bits wide, i64 is not, so the     *)
(* payload of Byte/Short/Int/Long is an exact integer in sign-magnitude    *)
(* form: [neg |-> BOOLEAN, mag |-> little-endian sequence of limbs in      *)
(* base LimbBase, without leading zero limbs].  Zero is [FALSE, <<>>].     *)
(***************************************************************************)
LimbBase == 10000

RECURSIVE MagNorm(_)
MagNorm(m) ==
    IF m = <<>> THEN <<>>
    ELSE IF m[Len(m)] = 0 THEN MagNorm(SubSeq(m, 1, Len(m) - 1))
    ELSE m

RECURSIVE MagOfNat(_)
MagOfNat(n) ==
    IF n = 0 THEN <<>> ELSE <<n % LimbBase>> \o MagOfNat(n \div LimbBase)

Limb(m, i) == IF i <= Len(m) THEN m[i] ELSE 0

RECURSIVE MagCmpFrom(_, _, _)
MagCmpFrom(a, b, i) ==
    IF i = 0 THEN 0
    ELSE IF a[i] < b[i] THEN -1
    ELSE IF a[i] > b[i] THEN 1
    ELSE MagCmpFrom(a, b, i - 1)

\* -1, 0, 1 as a < b, a = b, a > b
MagCmp(a, b) ==
    IF Len(a) < Len(b) THEN -1
    ELSE IF Len(a) > Len(b) THEN 1
    ELSE MagCmpFrom(a, b, Len(a))

RECURSIVE MagAddFrom(_, _, _, _)
MagAddFrom(a, b, i, carry) ==
    IF i > Len(a) /\ i > Len(b)
    THEN (IF carry = 0 THEN <<>> ELSE <<carry>>)
    ELSE LET s == Limb(a, i) + Limb(b, i) + carry
         IN  <<s % LimbBase>> \o MagAddFrom(a, b, i + 1, s \div LimbBase)

MagAdd(a, b) == MagAddFrom(a, b, 1, 0)

RECURSIVE MagSubFrom(_, _, _, _)
MagSubFrom(a, b, i, borrow) ==
    IF i > Len(a) THEN <<>>
    ELSE LET d == Limb(a, i) - Limb(b, i) - borrow
         IN  IF d < 0
             THEN <<d + LimbBase>> \o MagSubFrom(a, b, i + 1, 1)
             ELSE <<d>> \o MagSubFrom(a, b, i + 1, 0)

\* a - b for a >= b
MagSub(a, b) == MagNorm(MagSubFrom(a, b, 1, 0))

RECURSIVE MagMulLimbFrom(_, _, _, _)
MagMulLimbFrom(a, d, i, carry) ==
    IF i > Len(a)
    THEN (IF carry = 0 THEN <<>> ELSE <<carry>>)
    ELSE LET p == a[i] * d + carry
         IN  <<p % LimbBase>> \o MagMulLimbFrom(a, d, i + 1, p \div LimbBase)

MagMulLimb(a, d) == MagNorm(MagMulLimbFrom(a, d, 1, 0))

RECURSIVE MagMul(_, _)
MagMul(a, b) ==
    IF b = <<>> \/ a = <<>> THEN <<>>
    ELSE MagAdd(MagMulLimb(a, b[1]),
                MagNorm(<<0>> \o MagMul(a, Tail(b))))

\* the largest k in lo..hi with d * k <= cur (d * lo <= cur is given)
RECURSIVE QuotDigit(_, _, _, _)
QuotDigit(cur, d, lo, hi) ==
    IF lo = hi THEN lo
    ELSE LET mid == (lo + hi + 1) \div 2
         IN  IF MagCmp(MagMulLimb(d, mid), cur) <= 0
             THEN QuotDigit(cur, d, mid, hi)
             ELSE QuotDigit(cur, d, lo, mid - 1)

\* long division of the number made of the limbs i..Len(n) of n by d > 0
RECURSIVE MagDivFrom(_, _, _)
MagDivFrom(n, d, i) ==
    IF i > Len(n) THEN [q |-> <<>>, r |-> <<>>]
    ELSE LET h   == MagDivFrom(n, d, i + 1)
             cur == MagNorm(<<n[i]>> \o h.r)
             qd  == QuotDigit(cur, d, 0, LimbBase - 1)
         IN  [q |-> <<qd>> \o h.q, r |-> MagSub(cur, MagMulLimb(d, qd))]

\* floor(n / d) and the remainder, for d > 0
MagDivMod(n, d) ==
    LET h == MagDivFrom(n, d, 1) IN [q |-> MagNorm(h.q), r |-> h.r]

RECURSIVE MagPow2(_)
MagPow2(n) ==
    IF n = 0 THEN <<1>>
    ELSE LET h == MagPow2(n \div 2)
         IN  IF n % 2 = 0 THEN MagMul(h, h) ELSE MagMulLimb(MagMul(h, h), 2)

Num(neg, mag) == [neg |-> neg /\ mag # <<>>, mag |-> mag]
NumOf(n) == IF n < 0 THEN Num(TRUE, MagOfNat(-n)) ELSE Num(FALSE, MagOfNat(n))
NumNeg(x) == Num(~x.neg, x.mag)

NumAdd(x, y) ==
    IF x.neg = y.neg THEN Num(x.neg, MagAdd(x.mag, y.mag))
    ELSE IF MagCmp(x.mag, y.mag) >= 0 THEN Num(x.neg, MagSub(x.mag, y.mag))
    ELSE Num(y.neg, MagSub(y.mag, x.mag))

NumSub(x, y) == NumAdd(x, NumNeg(y))
NumMul(x, y) == Num(x.neg # y.neg, MagMul(x.mag, y.mag))
\* the quotient rounded towards zero, as the host's integer division; y # 0
NumDiv(x, y) == Num(x.neg # y.neg, MagDivMod(x.mag, y.mag).q)

NumLess(x, y) ==
    IF x.neg # y.neg THEN x.neg
    ELSE IF x.neg THEN MagCmp(x.mag, y.mag) > 0
    ELSE MagCmp(x.mag, y.mag) < 0

NumLeq(x, y) == x = y \/ NumLess(x, y)

(***************************************************************************)
(* The fixed-width integer variants of Value and the host's checked        *)
(* arithmetic on their payloads (i8, i16, i32, i64).                       *)
(***************************************************************************)
ByteBits  == 8
ShortBits == 16
IntBits   == 32
LongBits  == 64

IntTags == {"Byte", "Short", "Int", "Long"}

Bits(T) ==
    CASE T = "Byte"  -> ByteBits
      [] T = "Short" -> ShortBits
      [] T = "Int"   -> IntBits
      [] T = "Long"  -> LongBits

\* T::MIN and T::MAX of the two's complement type of Bits(T) bits
MinOf(T) == Num(TRUE, MagPow2(Bits(T) - 1))
MaxOf(T) == Num(FALSE, MagSub(MagPow2(Bits(T) - 1), <<1>>))
InRange(T, x) == NumLeq(MinOf(T), x) /\ NumLeq(x, MaxOf(T))

\* Option<T>: <<>> is None, <<x>> is Some(x)
None == <<>>
Some(x) == <<x>>

checked_add(T, l, r) ==
    LET s == NumAdd(l, r) IN IF InRange(T, s) THEN Some(s) ELSE None

checked_sub(T, l, r) ==
    LET s == NumSub(l, r) IN IF InRange(T, s) THEN Some(s) ELSE None

checked_mul(T, l, r) ==
    LET s == NumMul(l, r) IN IF InRange(T, s) THEN Some(s) ELSE None

checked_div(T, l, r) ==
    IF r = NumOf(0) THEN None
    ELSE LET q == NumDiv(l, r) IN IF InRange(T, q) THEN Some(q) ELSE None

\* Ord::max and Ord::min
ord_max(l, r) == IF NumLess(l, r) THEN r ELSE l
ord_min(l, r) == IF NumLess(r, l) THEN r ELSE l

(***************************************************************************)
(* Value: a tagged union, [tag, v].  The payload v is a BOOLEAN for        *)
(* Boolean, an exact integer for Byte/Short/Int/Long, nothing for BigInt   *)
(* (a unit variant in this source), <<>> or <<value>> for Opt, and a       *)
(* sequence of values for Coll and Tup.                                    *)
(***************************************************************************)
Value(tag, v) == [tag |-> tag, v |-> v]
Boolean(b) == Value("Boolean", b)
BigInt == Value("BigInt", <<>>)
Unit == Value("Unit", <<>>)

\* #[derive(PartialEq)] on Value: the same variant and equal payloads
RECURSIVE ValueEq(_, _)
ValueEq(a, b) ==
    /\ a.tag = b.tag
    /\ IF a.tag \in {"Opt", "Coll", "Tup"}
       THEN /\ Len(a.v) = Len(b.v)
            /\ \A i \in 1..Len(a.v) : ValueEq(a.v[i], b.v[i])
       ELSE a.v = b.v

\* Result<_, EvalError>, and the unwinding of a panic (todo!())
Ok(x)  == [kind |-> "Ok", val |-> x, err |-> "none"]
Err(e) == [kind |-> "Err", val |-> Unit, err |-> e]
Panic  == [kind |-> "Panic", val |-> Unit, err |-> "todo"]

\* Value::try_extract_into::<T>(): the payload when the variant is T's, else
\* the typed error of the dynamic type failure
try_extract_into(T, v) ==
    IF v.tag = T THEN Ok(v.v) ELSE Err("UnexpectedValue")


(***************************************************************************)
(* Expr: the nodes this source evaluates.                                  *)
(***************************************************************************)
ArithOps == {"Plus", "Minus", "Multiply", "Divide", "Max", "Min"}
RelationOps == {"Eq", "NEq", "GE", "GT", "LE", "LT", "And", "Or"}

Arith(op) == [cls |-> "Arith", op |-> op]
Relation(op) == [cls |-> "Relation", op |-> op]

Const(v) == [node |-> "Const", v |-> v]
BinOp(kind, left, right) ==
    [node |-> "BinOp", kind |-> kind, left |-> left, right |-> right]
If(condition, true_branch, false_branch) ==
    [node |-> "If", condition |-> condition,
     true_branch |-> true_branch, false_branch |-> false_branch]

(***************************************************************************)
(* EvalContext.  cost_accum is the accumulated cost, cost_limit its        *)
(* ceiling (NoLimit: none configured).  visited is the history of the      *)
(* calls of eval: the path from the root of every node entered, in order.  *)
(***************************************************************************)
NoLimit == -1
EqConstSize == 1

EvalContext(limit) == [cost_accum |-> 0, cost_limit |-> limit, visited |-> <<>>]

\* the outcome of a call of eval: its return value and the context it leaves
Out(res, ctx) == [res |-> res, ctx |-> ctx]

Entered(ctx, path) == [ctx EXCEPT !.visited = Append(@, path)]

\* ctx.cost_accum.add(cost)
cost_accum_add(ctx, cost) ==
    LET accum == ctx.cost_accum + cost
        after == [ctx EXCEPT !.cost_accum = accum]
    IN  IF ctx.cost_limit # NoLimit /\ accum > ctx.cost_limit
        THEN Out(Err("CostExceeded"), after)
        ELSE Out(Ok(Unit), after)

(***************************************************************************)
(* bin_op.rs: the arithmetic on an extracted left payload lv_raw of type T *)
(* and the right value rv.                                                 *)
(***************************************************************************)
\* the sum reduced modulo 2^Bits(T) into MIN..MAX, as a wrapping add
wrapping_add(T, l, r) ==
    LET s == NumAdd(l, r)
        m == Num(FALSE, MagPow2(Bits(T)))
    IN  IF NumLess(MaxOf(T), s) THEN NumSub(s, m)
        ELSE IF NumLess(s, MinOf(T)) THEN NumAdd(s, m)
        ELSE s

eval_plus_wrapping(T, lv_raw, rv) ==
    LET rv_raw == try_extract_into(T, rv)
    IN  IF rv_raw.kind # "Ok" THEN rv_raw
        ELSE Ok(Value(T, wrapping_add(T, lv_raw, rv_raw.val)))

eval_plus(T, lv_raw, rv) ==
    LET rv_raw == try_extract_into(T, rv)
    IN  IF rv_raw.kind # "Ok" THEN rv_raw
        ELSE LET s == checked_add(T, lv_raw, rv_raw.val)
             IN  IF s = None THEN Err("ArithmeticException")
                 ELSE Ok(Value(T, s[1]))

\* the operands of the subtraction exchanged
eval_minus_swapped(T, lv_raw, rv) ==
    LET rv_raw == try_extract_into(T, rv)
    IN  IF rv_raw.kind # "Ok" THEN rv_raw
        ELSE LET s == checked_sub(T, rv_raw.val, lv_raw)
             IN  IF s = None THEN Err("ArithmeticException")
                 ELSE Ok(Value(T, s[1]))

eval_minus(T, lv_raw, rv) ==
    LET rv_raw == try_extract_into(T, rv)
    IN  IF rv_raw.kind # "Ok" THEN rv_raw
        ELSE LET s == checked_sub(T, lv_raw, rv_raw.val)
             IN  IF s = None THEN Err("ArithmeticException")
                 ELSE Ok(Value(T, s[1]))

eval_mul(T, lv_raw, rv) ==
    LET rv_raw == try_extract_into(T, rv)
    IN  IF rv_raw.kind # "Ok" THEN rv_raw
        ELSE LET s == checked_mul(T, lv_raw, rv_raw.val)
             IN  IF s = None THEN Err("ArithmeticException")
                 ELSE Ok(Value(T, s[1]))

eval_div(T, lv_raw, rv) ==
    LET rv_raw == try_extract_into(T, rv)
    IN  IF rv_raw.kind # "Ok" THEN rv_raw
        ELSE LET s == checked_div(T, lv_raw, rv_raw.val)
             IN  IF s = None THEN Err("ArithmeticException")
                 ELSE Ok(Value(T, s[1]))

\* max that returns the smaller operand
eval_max_as_min(T, lv_raw, rv) ==
    LET rv_raw == try_extract_into(T, rv)
    IN  IF rv_raw.kind # "Ok" THEN rv_raw
        ELSE Ok(Value(T, ord_min(lv_raw, rv_raw.val)))

eval_max(T, lv_raw, rv) ==
    LET rv_raw == try_extract_into(T, rv)
    IN  IF rv_raw.kind # "Ok" THEN rv_raw
        ELSE Ok(Value(T, ord_max(lv_raw, rv_raw.val)))

eval_min(T, lv_raw, rv) ==
    LET rv_raw == try_extract_into(T, rv)
    IN  IF rv_raw.kind # "Ok" THEN rv_raw
        ELSE Ok(Value(T, ord_min(lv_raw, rv_raw.val)))

(***************************************************************************)
(* bin_op.rs: the ordering relations.  The arms Byte, Short, Int and Long  *)
(* of `match lv` extract the right value as the left variant's own type;   *)
(* the arm BigInt is todo!(); any other left value is UnexpectedValue.     *)
(***************************************************************************)
\* >= written as >
eval_ge_strict(lv, rv) ==
    CASE lv.tag \in IntTags ->
             LET rv_raw == try_extract_into(lv.tag, rv)
             IN  IF rv_raw.kind # "Ok" THEN rv_raw
                 ELSE Ok(Boolean(NumLess(rv_raw.val, lv.v)))
      [] lv.tag = "BigInt" -> Panic
      [] OTHER -> Err("UnexpectedValue")

eval_ge(lv, rv) ==
    CASE lv.tag \in IntTags ->
             LET rv_raw == try_extract_into(lv.tag, rv)
             IN  IF rv_raw.kind # "Ok" THEN rv_raw
                 ELSE Ok(Boolean(NumLeq(rv_raw.val, lv.v)))
      [] lv.tag = "BigInt" -> Panic
      [] OTHER -> Err("UnexpectedValue")

eval_gt(lv, rv) ==
    CASE lv.tag \in IntTags ->
             LET rv_raw == try_extract_into(lv.tag, rv)
             IN  IF rv_raw.kind # "Ok" THEN rv_raw
                 ELSE Ok(Boolean(NumLess(rv_raw.val, lv.v)))
      [] lv.tag = "BigInt" -> Panic
      [] OTHER -> Err("UnexpectedValue")

eval_lt(lv, rv) ==
    CASE lv.tag \in IntTags ->
             LET rv_raw == try_extract_into(lv.tag, rv)
             IN  IF rv_raw.kind # "Ok" THEN rv_raw
                 ELSE Ok(Boolean(NumLess(lv.v, rv_raw.val)))
      [] lv.tag = "BigInt" -> Panic
      [] OTHER -> Err("UnexpectedValue")

eval_le(lv, rv) ==
    CASE lv.tag \in IntTags ->
             LET rv_raw == try_extract_into(lv.tag, rv)
             IN  IF rv_raw.kind # "Ok" THEN rv_raw
                 ELSE Ok(Boolean(NumLeq(lv.v, rv_raw.val)))
      [] lv.tag = "BigInt" -> Panic
      [] OTHER -> Err("UnexpectedValue")

(***************************************************************************)
(* BinOp::eval after the left operand: lv is the left value, lctx the      *)
(* context the left operand left, and rv the outcome of the closure        *)
(* `|| self.right.eval(env, ctx)` called in lctx.  An arm that does not    *)
(* call the closure returns lctx; an arm that calls it returns the right   *)
(* operand's failure (`rv()?`) or continues in the context it left.        *)
(***************************************************************************)
\* an And that evaluates its right operand before it looks at the left value
eval_and_strict(lv, lctx, rv) ==
    IF rv.res.kind # "Ok" THEN rv
    ELSE LET l == try_extract_into("Boolean", lv)
             r == try_extract_into("Boolean", rv.res.val)
         IN  IF l.kind # "Ok" THEN Out(l, rv.ctx)
             ELSE IF r.kind # "Ok" THEN Out(r, rv.ctx)
             ELSE Out(Ok(Boolean(l.val /\ r.val)), rv.ctx)

\* RelationOp::And
eval_and(lv, lctx, rv) ==
    LET l == try_extract_into("Boolean", lv)
    IN  IF l.kind # "Ok" THEN Out(l, lctx)
        ELSE IF l.val
        THEN IF rv.res.kind # "Ok" THEN rv
             ELSE LET r == try_extract_into("Boolean", rv.res.val)
                  IN  IF r.kind # "Ok" THEN Out(r, rv.ctx)
                      ELSE Out(Ok(Boolean(r.val)), rv.ctx)
        ELSE Out(Ok(Boolean(FALSE)), lctx)

\* RelationOp::Or
eval_or(lv, lctx, rv) ==
    LET l == try_extract_into("Boolean", lv)
    IN  IF l.kind # "Ok" THEN Out(l, lctx)
        ELSE IF ~l.val
        THEN IF rv.res.kind # "Ok" THEN rv
             ELSE LET r == try_extract_into("Boolean", rv.res.val)
                  IN  IF r.kind # "Ok" THEN Out(r, rv.ctx)
                      ELSE Out(Ok(Boolean(r.val)), rv.ctx)
        ELSE Out(Ok(Boolean(TRUE)), lctx)

\* a != that compares as == does
eval_neq_as_eq(lv, rv) == Boolean(ValueEq(lv, rv))

\* RelationOp::Eq and RelationOp::NEq: lv == rv, lv != rv
eval_eq(lv, rv) == Boolean(ValueEq(lv, rv))
eval_neq(lv, rv) == Boolean(~ValueEq(lv, rv))

Relation_eval(op, lv, lctx, rv) ==
    CASE op = "Eq" ->
             IF rv.res.kind # "Ok" THEN rv
             ELSE Out(Ok(eval_eq(lv, rv.res.val)), rv.ctx)
      [] op = "NEq" ->
             IF rv.res.kind # "Ok" THEN rv
             ELSE Out(Ok(eval_neq(lv, rv.res.val)), rv.ctx)
      [] op = "GT" ->
             IF rv.res.kind # "Ok" THEN rv
             ELSE Out(eval_gt(lv, rv.res.val), rv.ctx)
      [] op = "LT" ->
             IF rv.res.kind # "Ok" THEN rv
             ELSE Out(eval_lt(lv, rv.res.val), rv.ctx)
      [] op = "GE" ->
             IF rv.res.kind # "Ok" THEN rv
             ELSE Out(eval_ge(lv, rv.res.val), rv.ctx)
      [] op = "LE" ->
             IF rv.res.kind # "Ok" THEN rv
             ELSE Out(eval_le(lv, rv.res.val), rv.ctx)
      [] op = "And" -> eval_and(lv, lctx, rv)
      [] op = "Or"  -> eval_or(lv, lctx, rv)

\* the function each arm of `match op` applies to (lv_raw, rv()?)
ArithOp_apply(op, T, lv_raw, rv) ==
    CASE op = "Plus"     -> eval_plus(T, lv_raw, rv)
      [] op = "Minus"    -> eval_minus(T, lv_raw, rv)
      [] op = "Multiply" -> eval_mul(T, lv_raw, rv)
      [] op = "Divide"   -> eval_div(T, lv_raw, rv)
      [] op = "Max"      -> eval_max(T, lv_raw, rv)
      [] op = "Min"      -> eval_min(T, lv_raw, rv)

\* a left value that is no number reported as an arithmetic failure
Arith_eval_wrong_kind(op, lv, lctx, rv) ==
    CASE lv.tag \in IntTags ->
             IF rv.res.kind # "Ok" THEN rv
             ELSE Out(ArithOp_apply(op, lv.tag, lv.v, rv.res.val), rv.ctx)
      [] lv.tag = "BigInt" -> Out(Panic, lctx)
      [] OTHER -> Out(Err("ArithmeticException"), lctx)

\* the six arms of `match op` are the same `match lv`: Byte, Short, Int and
\* Long call the closure and the op's function, BigInt is todo!(), any
\* other left value is UnexpectedValue (the closure is not called)
Arith_eval(op, lv, lctx, rv) ==
    CASE lv.tag \in IntTags ->
             IF rv.res.kind # "Ok" THEN rv
             ELSE Out(ArithOp_apply(op, lv.tag, lv.v, rv.res.val), rv.ctx)
      [] lv.tag = "BigInt" -> Out(Panic, lctx)
      [] OTHER -> Out(Err("UnexpectedValue"), lctx)

RECURSIVE Expr_eval(_, _, _)

\* the cost charged without its `?`: a ceiling exceeded is not returned
BinOp_eval_unchecked_cost(e, path, ctx) ==
    LET c == cost_accum_add(Entered(ctx, path), EqConstSize)
        l == Expr_eval(e.left, path \o <<"left">>, c.ctx)
    IN  IF l.res.kind # "Ok" THEN l
        ELSE LET rv == Expr_eval(e.right, path \o <<"right">>, l.ctx)
             IN  IF e.kind.cls = "Relation"
                 THEN Relation_eval(e.kind.op, l.res.val, l.ctx, rv)
                 ELSE Arith_eval(e.kind.op, l.res.val, l.ctx, rv)

\* a BinOp that goes on to its right operand after its left operand failed
BinOp_eval_after_failure(e, path, ctx) ==
    LET c == cost_accum_add(Entered(ctx, path), EqConstSize)
    IN  IF c.res.kind # "Ok" THEN c
        ELSE LET l == Expr_eval(e.left, path \o <<"left">>, c.ctx)
                 rv == Expr_eval(e.right, path \o <<"right">>, l.ctx)
             IN  IF l.res.kind # "Ok" THEN Out(l.res, rv.ctx)
                 ELSE IF e.kind.cls = "Relation"
                 THEN Relation_eval(e.kind.op, l.res.val, l.ctx, rv)
                 ELSE Arith_eval(e.kind.op, l.res.val, l.ctx, rv)

\* impl Evaluable for BinOp
BinOp_eval(e, path, ctx) ==
    LET c == cost_accum_add(Entered(ctx, path), EqConstSize)
    IN  IF c.res.kind # "Ok" THEN c
        ELSE LET l == Expr_eval(e.left, path \o <<"left">>, c.ctx)
             IN  IF l.res.kind # "Ok" THEN l
                 ELSE LET rv == Expr_eval(e.right, path \o <<"right">>, l.ctx)
                      IN  IF e.kind.cls = "Relation"
                          THEN Relation_eval(e.kind.op, l.res.val, l.ctx, rv)
                          ELSE Arith_eval(e.kind.op, l.res.val, l.ctx, rv)

\* what eval adds to cost_accum for the node itself: BinOp::eval adds
\* eq_const_size, If::eval and a constant add nothing
NodeCost(e) == IF e.node = "BinOp" THEN EqConstSize ELSE 0

\* what the taken branch left, with the cost of the other branch's node added
charged_for(other, out) ==
    Out(out.res, [out.ctx EXCEPT !.cost_accum = @ + NodeCost(other)])

\* the branch chosen by a boolean condition, the other branch charged as well
branch_charging_both(e, path, cctx, condition_v) ==
    IF condition_v.kind # "Ok" THEN Out(condition_v, cctx)
    ELSE IF condition_v.val
    THEN charged_for(e.false_branch,
                     Expr_eval(e.true_branch, path \o <<"true_branch">>, cctx))
    ELSE charged_for(e.true_branch,
                     Expr_eval(e.false_branch, path \o <<"false_branch">>, cctx))

after_condition_charging_both(e, path, c) ==
    IF c.res.kind # "Ok" THEN c
    ELSE branch_charging_both(e, path, c.ctx, try_extract_into("Boolean", c.res.val))

\* an If that charges the node cost of both branches
If_eval_charging_both(e, path, ctx) ==
    after_condition_charging_both(
        e, path, Expr_eval(e.condition, path \o <<"condition">>, Entered(ctx, path)))

\* an If that evaluates both branches before it chooses
If_eval_strict(e, path, ctx) ==
    LET c == Expr_eval(e.condition, path \o <<"condition">>, Entered(ctx, path))
    IN  IF c.res.kind # "Ok" THEN c
        ELSE LET condition_v == try_extract_into("Boolean", c.res.val)
                 t == Expr_eval(e.true_branch, path \o <<"true_branch">>, c.ctx)
                 f == Expr_eval(e.false_branch, path \o <<"false_branch">>, t.ctx)
             IN  IF condition_v.kind # "Ok" THEN Out(condition_v, c.ctx)
                 ELSE IF t.res.kind # "Ok" THEN t
                 ELSE IF f.res.kind # "Ok" THEN f
                 ELSE IF condition_v.val THEN Out(t.res, f.ctx) ELSE Out(f.res, f.ctx)

\* impl Evaluable for If
If_eval(e, path, ctx) ==
    LET c == Expr_eval(e.condition, path \o <<"condition">>, Entered(ctx, path))
    IN  IF c.res.kind # "Ok" THEN c
        ELSE LET condition_v == try_extract_into("Boolean", c.res.val)
             IN  IF condition_v.kind # "Ok" THEN Out(condition_v, c.ctx)
                 ELSE IF condition_v.val
                 THEN Expr_eval(e.true_branch, path \o <<"true_branch">>, c.ctx)
                 ELSE Expr_eval(e.false_branch, path \o <<"false_branch">>, c.ctx)

\* Expr::Const: the constant's value
Const_eval(e, path, ctx) == Out(Ok(e.v), Entered(ctx, path))

\* Expr::eval: the node's own eval
Expr_eval(e, path, ctx) ==
    CASE e.node = "Const" -> Const_eval(e, path, ctx)
      [] e.node = "BinOp" -> BinOp_eval(e, path, ctx)
      [] e.node = "If"    -> If_eval(e, path, ctx)


(***************************************************************************)
(* The expressions evaluated.  Near is how far from MIN, 0 and MAX the     *)
(* sampled integers of each width reach; MaxCostLimit is the largest       *)
(* configured cost ceiling.                                                *)
(***************************************************************************)
Near == 1
MaxCostLimit == 3

\* per width: MIN.., around 0, ..MAX, and the two powers of two whose
\* products straddle the width (2^(w/2) * 2^(w/2 - 1) = MAX + 1)
NumsOf(T) ==
    {NumAdd(MinOf(T), NumOf(k)) : k \in 0..Near}
        \cup {NumOf(k) : k \in -Near..Near}
        \cup {NumSub(MaxOf(T), NumOf(k)) : k \in 0..Near}
        \cup {Num(neg, MagPow2(Bits(T) \div 2 - h)) : neg \in BOOLEAN, h \in 0..1}

IntValues == UNION {{Value(T, x) : x \in NumsOf(T)} : T \in IntTags}

LongV(n) == Value("Long", NumOf(n))
ByteV(n) == Value("Byte", NumOf(n))

OtherValues ==
    {Boolean(TRUE), Boolean(FALSE), BigInt,
     Value("Opt", <<>>), Value("Opt", <<LongV(1)>>),
     Value("Coll", <<ByteV(1), ByteV(2)>>), Value("Coll", <<ByteV(2), ByteV(2)>>),
     Value("Tup", <<LongV(1), Boolean(TRUE)>>)}

Values == IntValues \cup OtherValues

BinOpKinds == {Arith(op) : op \in ArithOps} \cup {Relation(op) : op \in RelationOps}

\* a constant, and every BinOp on two constants
ConstExprs == {Const(v) : v \in Values}
ConstBinOps == {BinOp(k, Const(a), Const(b)) : k \in BinOpKinds, a \in Values, b \in Values}

\* operands that succeed, and operands whose evaluation fails
DivByZero(T) == BinOp(Arith("Divide"), Const(Value(T, NumOf(1))), Const(Value(T, NumOf(0))))
Overflow(T) == BinOp(Arith("Plus"), Const(Value(T, MaxOf(T))), Const(Value(T, NumOf(1))))

Operands ==
    {Const(Boolean(TRUE)), Const(Boolean(FALSE)), Const(LongV(1)), Const(LongV(2)),
     Const(Value("Int", NumOf(1))), Const(BigInt),
     BinOp(Relation("GT"), Const(LongV(2)), Const(LongV(1))),
     BinOp(Relation("And"), Const(Boolean(TRUE)), Const(Boolean(FALSE))),
     BinOp(Relation("Or"), Const(Boolean(TRUE)), DivByZero("Int")),
     BinOp(Arith("Plus"), Const(LongV(1)), Const(LongV(1))),
     If(Const(Boolean(TRUE)), Const(LongV(1)), DivByZero("Long")),
     DivByZero("Int"), DivByZero("Long"), Overflow("Int")}

NestedExprs ==
    {BinOp(k, x, y) : k \in BinOpKinds, x \in Operands, y \in Operands}
        \cup {If(c, t, f) : c \in Operands, t \in Operands, f \in Operands}

CostLimits == {NoLimit} \cup 0..MaxCostLimit

(***************************************************************************)
(* The state: the root expression, the evaluation context, the value the   *)
(* evaluation returned, and whether it has run.                            *)
(***************************************************************************)
VARIABLES expr, ctx, result, pc
vars == <<expr, ctx, result, pc>>

NoResult == [kind |-> "NoResult", val |-> Unit, err |-> "none"]

(***************************************************************************)
(* The state of the other components.  Each is exercised by a              *)
(* specification of its own (TxSpec, FfiSpec, SerSpec, PeerSpec below);    *)
(* an evaluation touches none of it, and they do not touch an evaluation.  *)
(*                                                                         *)
(* Transactions: tx_vecs are the three vectors a construction is given,    *)
(* unsigned_tx what the construction returned, rebuilt what a second       *)
(* construction from the same vectors returned, to_sign the results of     *)
(* the calls of bytes_to_sign on unsigned_tx in order, tx_json the         *)
(* UnsignedTransactionJson made of it (None, Some), from_json what         *)
(* decoding tx_json returned.                                              *)
(* FFI: ffi_json is the text handed to unsigned_tx_from_json,              *)
(* ffi_out_ptr the pointer argument, unsigned_tx_out the caller's handle   *)
(* the pointer refers to, heap the transactions allocated, ffi_result      *)
(* what the call returned.                                                 *)
(* Serialization: ser_expr is the expression written, ser_bytes the bytes  *)
(* in the writer (or the reader's input), parsed what sigma_parse          *)
(* returned.                                                               *)
(* Peer addresses: peer_addr is the address serialized, peer_w the bytes   *)
(* in the writer (or the reader's input), peer_ser what scorex_serialize   *)
(* returned, peer_parsed what scorex_parse returned.                       *)
(***************************************************************************)
VARIABLES tx_vecs, unsigned_tx, rebuilt, to_sign, tx_json, from_json
VARIABLES ffi_json, ffi_out_ptr, unsigned_tx_out, heap, ffi_result
VARIABLES ser_expr, ser_bytes, parsed
VARIABLES peer_addr, peer_w, peer_ser, peer_parsed

evalvars == vars
txvars == <<tx_vecs, unsigned_tx, rebuilt, to_sign, tx_json, from_json>>
ffivars == <<ffi_json, ffi_out_ptr, unsigned_tx_out, heap, ffi_result>>
servars == <<ser_expr, ser_bytes, parsed>>
peervars == <<peer_addr, peer_w, peer_ser, peer_parsed>>

\* a component no call has been made on
NoVecs == [inputs |-> <<>>, data_inputs |-> <<>>, output_candidates |-> <<>>]
EvalIdle ==
    /\ expr = Const(Unit)
    /\ ctx = EvalContext(NoLimit)
    /\ result = NoResult
    /\ pc = "idle"
TxIdle ==
    /\ tx_vecs = NoVecs
    /\ unsigned_tx = NoResult
    /\ rebuilt = NoResult
    /\ to_sign = <<>>
    /\ tx_json = None
    /\ from_json = NoResult
\* a JSON text: whether it parses as an UnsignedTransactionJson, and which
JsonText(wellformed, v) == [wellformed |-> wellformed, v |-> v]
\* the caller's handle: whether the call wrote it, and the pointer written
Unwritten == [written |-> FALSE, ptr |-> 0]
FfiIdle ==
    /\ ffi_json = JsonText(FALSE, NoVecs)
    /\ ffi_out_ptr = "null"
    /\ unsigned_tx_out = Unwritten
    /\ heap = <<>>
    /\ ffi_result = NoResult
SerIdle ==
    /\ ser_expr = Const(Unit)
    /\ ser_bytes = <<>>
    /\ parsed = NoResult
\* SocketAddr: an IPv4 or IPv6 address and a port
SocketAddr(v, octets, port) == [ip |-> [v |-> v, octets |-> octets], port |-> port]
NoAddr == SocketAddr("none", <<>>, 0)
PeerIdle ==
    /\ peer_addr = NoAddr
    /\ peer_w = <<>>
    /\ peer_ser = NoResult
    /\ peer_parsed = NoResult

Init ==
    /\ pc = "ready"
    /\ result = NoResult
    /\ \/ /\ expr \in ConstExprs \cup ConstBinOps
          /\ ctx = EvalContext(NoLimit)
       \/ /\ expr \in NestedExprs
          /\ \E limit \in CostLimits : ctx = EvalContext(limit)
    /\ TxIdle /\ FfiIdle /\ SerIdle /\ PeerIdle

\* the root's eval, whole: the outcome of the call and the context it leaves
Evaluate(out) ==
    /\ result' = out.res
    /\ ctx' = out.ctx
    /\ pc' = "done"
    /\ UNCHANGED expr
    /\ UNCHANGED <<txvars, ffivars, servars, peervars>>

EvalConst ==
    /\ pc = "ready"
    /\ expr.node = "Const"
    /\ Evaluate(Const_eval(expr, <<>>, ctx))

EvalBinOp ==
    /\ pc = "ready"
    /\ expr.node = "BinOp"
    /\ Evaluate(BinOp_eval(expr, <<>>, ctx))

EvalIf ==
    /\ pc = "ready"
    /\ expr.node = "If"
    /\ Evaluate(If_eval(expr, <<>>, ctx))

Next == EvalConst \/ EvalBinOp \/ EvalIf

Spec == Init /\ [][Next]_vars

(***************************************************************************)
(* What the claims are stated over.                                        *)
(***************************************************************************)
Done == pc = "done"

\* the root is a BinOp on two constants
OnConsts == expr.node = "BinOp" /\ expr.left.node = "Const" /\ expr.right.node = "Const"
\* ... of the same fixed-width integer variant
OnSameWidth == OnConsts /\ expr.left.v.tag \in IntTags /\ expr.right.v.tag = expr.left.v.tag

\* the places in the history of a node, and of the nodes below a child of the root
VisitsOf(path) == {i \in 1..Len(ctx.visited) : ctx.visited[i] = path}
VisitsBelow(child) ==
    {i \in 1..Len(ctx.visited) : Len(ctx.visited[i]) >= 1 /\ ctx.visited[i][1] = child}

\* the context an evaluation of the root started in
StartCtx == EvalContext(ctx.cost_limit)

\* the cost ceiling admits the root BinOp's own cost: the evaluation gets to
\* its operands (C10 is about the evaluations it stops)
WithinCost == ctx.cost_limit = NoLimit \/ EqConstSize <= ctx.cost_limit

(***************************************************************************)
(* C1.  If evaluates its condition first and then exactly one branch, the  *)
(* true branch when the condition is true and the false branch when it is  *)
(* false; no node of the untaken branch is ever entered, and the If        *)
(* returns what the taken branch returns, whatever the untaken branch      *)
(* would have done (a division by zero included).                          *)
(***************************************************************************)
C1_IfEvaluatesOneBranch ==
    (Done /\ expr.node = "If") =>
        LET c == Expr_eval(expr.condition, <<"condition">>, Entered(StartCtx, <<>>))
        IN  /\ ctx.visited[1] = <<>>
            /\ ctx.visited[2] = <<"condition">>
            /\ (c.res.kind = "Ok" /\ c.res.val.tag = "Boolean") =>
                   LET taken   == IF c.res.val.v THEN "true_branch" ELSE "false_branch"
                       untaken == IF c.res.val.v THEN "false_branch" ELSE "true_branch"
                       b == Expr_eval(expr[taken], <<taken>>, c.ctx)
                   IN  /\ VisitsBelow(untaken) = {}
                       /\ Cardinality(VisitsOf(<<taken>>)) = 1
                       /\ \A i \in VisitsBelow("condition"), j \in VisitsBelow(taken) : i < j
                       /\ result = b.res
                       /\ ctx = b.ctx

\* the scenario of tests::eval_laziness_true_branch
C1_Witness ==
    /\ Done
    /\ expr = If(Const(Boolean(TRUE)), Const(LongV(1)), DivByZero("Long"))
    /\ result = Ok(LongV(1))

(***************************************************************************)
(* C2.  And and Or evaluate the left operand first.  And returns false     *)
(* without entering the right operand when the left is false, Or returns   *)
(* true without entering it when the left is true, whatever the right      *)
(* operand would have done.  When the right operand is evaluated and both  *)
(* are booleans l and r, the result is l /\ r for And and l \/ r for Or.   *)
(***************************************************************************)
C2_AndOrShortCircuit ==
    (Done /\ expr.node = "BinOp" /\ expr.kind \in {Relation("And"), Relation("Or")}) =>
        LET charged == cost_accum_add(Entered(StartCtx, <<>>), EqConstSize)
            l == Expr_eval(expr.left, <<"left">>, charged.ctx)
            r == Expr_eval(expr.right, <<"right">>, l.ctx)
            isAnd == expr.kind.op = "And"
        IN  /\ \A i \in VisitsBelow("left"), j \in VisitsBelow("right") : i < j
            /\ VisitsBelow("right") # {} => VisitsBelow("left") # {}
            /\ (charged.res.kind = "Ok" /\ l.res.kind = "Ok" /\ l.res.val.tag = "Boolean") =>
                   IF l.res.val.v = ~isAnd
                   THEN /\ result = Ok(Boolean(~isAnd))
                        /\ VisitsBelow("right") = {}
                        /\ ctx = l.ctx
                   ELSE /\ VisitsOf(<<"right">>) # {}
                        /\ (r.res.kind = "Ok" /\ r.res.val.tag = "Boolean") =>
                               result = Ok(Boolean(IF isAnd
                                                   THEN l.res.val.v /\ r.res.val.v
                                                   ELSE l.res.val.v \/ r.res.val.v))

\* the scenario of tests::bin_and_eval_laziness
C2_Witness ==
    /\ Done
    /\ expr = BinOp(Relation("And"), Const(Boolean(FALSE)), DivByZero("Int"))
    /\ result = Ok(Boolean(FALSE))

(***************************************************************************)
(* C3.  On two constants l, r of the same width, Plus, Minus, Multiply and *)
(* Divide return the value of the host's checked_add, checked_sub,         *)
(* checked_mul, checked_div when it is Some, and an error exactly when it  *)
(* is None (in an evaluation the cost ceiling does not stop).              *)
(***************************************************************************)
HostChecked(op, T, l, r) ==
    CASE op = "Plus"     -> checked_add(T, l, r)
      [] op = "Minus"    -> checked_sub(T, l, r)
      [] op = "Multiply" -> checked_mul(T, l, r)
      [] op = "Divide"   -> checked_div(T, l, r)

C3_ArithIsHostChecked ==
    (Done /\ WithinCost /\ OnSameWidth /\ expr.kind \in {Arith(op) : op \in {"Plus", "Minus", "Multiply", "Divide"}}) =>
        LET T == expr.left.v.tag
            h == HostChecked(expr.kind.op, T, expr.left.v.v, expr.right.v.v)
        IN  IF h = None
            THEN result.kind = "Err"
            ELSE result = Ok(Value(T, h[1]))

\* i16: (-2) - (MIN + 1) = MAX - 1
C3_Witness ==
    /\ Done
    /\ expr = BinOp(Arith("Minus"), Const(Value("Short", NumOf(-1))),
                    Const(Value("Short", NumOf(-32767))))
    /\ result = Ok(Value("Short", NumOf(32766)))

(***************************************************************************)
(* C4.  Arithmetic on same-width integers never wraps: when the exact sum, *)
(* difference or product lies outside MIN..MAX of the width, when the      *)
(* divisor is zero, or when the division is MIN / -1, the evaluation fails *)
(* with ArithmeticException and returns no value (in an evaluation the     *)
(* cost ceiling does not stop).                                            *)
(***************************************************************************)
Exact(op, l, r) ==
    CASE op = "Plus"     -> NumAdd(l, r)
      [] op = "Minus"    -> NumSub(l, r)
      [] op = "Multiply" -> NumMul(l, r)

C4_OverflowIsArithmeticException ==
    (Done /\ WithinCost /\ OnSameWidth /\ expr.kind.cls = "Arith") =>
        LET T == expr.left.v.tag
            l == expr.left.v.v
            r == expr.right.v.v
            op == expr.kind.op
        IN  /\ (op \in {"Plus", "Minus", "Multiply"} /\ ~InRange(T, Exact(op, l, r)))
                   => result = Err("ArithmeticException")
            /\ (op = "Divide" /\ (r = NumOf(0) \/ (l = MinOf(T) /\ r = NumOf(-1))))
                   => result = Err("ArithmeticException")

\* i64::MAX + 1
C4_Witness ==
    /\ Done
    /\ expr = BinOp(Arith("Plus"), Const(Value("Long", MaxOf("Long"))), Const(LongV(1)))
    /\ result = Err("ArithmeticException")

(***************************************************************************)
(* C5.  On two constants l, r of the same width, GT, LT, GE and LE succeed *)
(* and return the boolean l > r, l < r, l >= r, l <= r (in an evaluation   *)
(* the cost ceiling does not stop).                                        *)
(***************************************************************************)
C5_OrderingAgrees ==
    (Done /\ WithinCost /\ OnSameWidth /\ expr.kind \in {Relation(op) : op \in {"GT", "LT", "GE", "LE"}}) =>
        LET l == expr.left.v.v
            r == expr.right.v.v
            op == expr.kind.op
        IN  result = Ok(Boolean(CASE op = "GT" -> ~NumLeq(l, r)
                                  [] op = "LT" -> NumLess(l, r)
                                  [] op = "GE" -> ~NumLess(l, r)
                                  [] op = "LE" -> NumLeq(l, r)))

\* i8: MIN >= MAX is false
C5_Witness ==
    /\ Done
    /\ expr = BinOp(Relation("GE"), Const(Value("Byte", NumOf(-128))),
                    Const(Value("Byte", NumOf(127))))
    /\ result = Ok(Boolean(FALSE))

(***************************************************************************)
(* C6.  Eq and NEq are structural equality on every pair of constants a,   *)
(* b: both succeed with a boolean whatever the variants of a and b are,    *)
(* Eq is true exactly when a and b are the same variant with the same      *)
(* payload (so Eq(v, v) is true, NEq(v, v) false), and NEq(a, b) is the    *)
(* negation of Eq(a, b) (in an evaluation the cost ceiling does not stop). *)
(***************************************************************************)
C6_EqNEqStructural ==
    (Done /\ WithinCost /\ OnConsts /\ expr.kind \in {Relation("Eq"), Relation("NEq")}) =>
        LET a == expr.left.v
            b == expr.right.v
            eq == BinOp_eval(BinOp(Relation("Eq"), expr.left, expr.right), <<>>, StartCtx).res
        IN  /\ result.kind = "Ok"
            /\ result.val.tag = "Boolean"
            /\ expr.kind.op = "Eq" => result.val.v = (a.tag = b.tag /\ a = b)
            /\ expr.kind.op = "NEq" => (eq.kind = "Ok" /\ result.val.v = ~eq.val.v)

\* operands of different variants: NEq is true and nothing fails
C6_Witness ==
    /\ Done
    /\ expr = BinOp(Relation("NEq"), Const(Value("Opt", <<LongV(1)>>)), Const(Boolean(TRUE)))
    /\ result = Ok(Boolean(TRUE))

(***************************************************************************)
(* C7.  Max and Min are total on two constants l, r of the same width: the *)
(* evaluation succeeds, with the larger of l and r for Max and the smaller *)
(* for Min (in an evaluation the cost ceiling does not stop).              *)
(***************************************************************************)
C7_MaxMinTotal ==
    (Done /\ WithinCost /\ OnSameWidth /\ expr.kind \in {Arith("Max"), Arith("Min")}) =>
        LET T == expr.left.v.tag
            l == expr.left.v.v
            r == expr.right.v.v
            larger  == IF NumLeq(l, r) THEN r ELSE l
            smaller == IF NumLeq(l, r) THEN l ELSE r
        IN  result = Ok(Value(T, IF expr.kind.op = "Max" THEN larger ELSE smaller))

\* i64: max(MIN, MAX) = MAX
C7_Witness ==
    /\ Done
    /\ expr = BinOp(Arith("Max"), Const(Value("Long", MinOf("Long"))),
                    Const(Value("Long", MaxOf("Long"))))
    /\ result = Ok(Value("Long", MaxOf("Long")))

C9_OrderingOnIntegersAndBigInt ==
    (Done /\ WithinCost /\ OnConsts /\ expr.kind \in {Relation(op) : op \in {"GT", "GE", "LT", "LE"}}) =>
        LET a == expr.left.v
            b == expr.right.v
            ordered == IntTags \cup {"BigInt"}
        IN  /\ (a.tag \in ordered /\ b.tag = a.tag)
                   => (result.kind = "Ok" /\ result.val.tag = "Boolean")
            /\ (a.tag \notin ordered \/ b.tag \notin ordered)
                   => result = Err("UnexpectedValue")

(***************************************************************************)
(* C10.  BinOp::eval adds the node's cost to cost_accum before it          *)
(* evaluates an operand: the cost is in cost_accum whatever the operands   *)
(* do, a left operand's own charge comes on top of it, and when the        *)
(* addition exceeds the ceiling the evaluation fails with CostExceeded and *)
(* enters neither the left nor the right operand.                          *)
(***************************************************************************)
C10_CostChargedBeforeOperands ==
    (Done /\ expr.node = "BinOp") =>
        /\ ctx.visited[1] = <<>>
        /\ ctx.cost_accum >= EqConstSize
        /\ ~WithinCost =>
               /\ result = Err("CostExceeded")
               /\ ctx.visited = << <<>> >>
               /\ ctx.cost_accum = EqConstSize
        /\ (WithinCost /\ ctx.cost_limit # NoLimit /\ ctx.cost_limit < 2 * EqConstSize
                /\ expr.left.node = "BinOp") =>
               /\ result = Err("CostExceeded")
               /\ ctx.visited = << <<>>, <<"left">> >>

\* a ceiling of 0: the operands' division by zero is never reached
C10_Witness ==
    /\ Done
    /\ expr = BinOp(Relation("Eq"), DivByZero("Int"), DivByZero("Long"))
    /\ ctx.cost_limit = 0
    /\ result = Err("CostExceeded")
    /\ ctx.visited = << <<>> >>

(***************************************************************************)
(* The wire primitives (sigma-ser): a writer is the sequence of bytes      *)
(* written, a reader the sequence of bytes left to read.                   *)
(***************************************************************************)
RECURSIVE Concat(_)
Concat(ss) == IF ss = <<>> THEN <<>> ELSE Head(ss) \o Concat(Tail(ss))

\* put_u64 / put_u32 / put_usize_as_u32 on a value that fits TLC's integers:
\* VLQ, seven bits a byte from the low end, the high bit set on every byte
\* but the last
RECURSIVE put_u64(_)
put_u64(n) ==
    IF n < 128 THEN <<n>> ELSE <<128 + (n % 128)>> \o put_u64(n \div 128)

\* what a read returns: the value and the bytes left, or the failure
ReadOk(v, rest) == [ok |-> TRUE, val |-> v, rest |-> rest, err |-> "none"]
ReadErr(e) == [ok |-> FALSE, val |-> 0, rest |-> <<>>, err |-> e]

\* get_u64: the VLQ read back; the input ending inside it is an Io error
RECURSIVE get_u64(_)
get_u64(r) ==
    IF r = <<>> THEN ReadErr("Io")
    ELSE IF r[1] < 128 THEN ReadOk(r[1], Tail(r))
    ELSE LET t == get_u64(Tail(r))
         IN  IF ~t.ok THEN t ELSE ReadOk((r[1] - 128) + 128 * t.val, t.rest)

(***************************************************************************)
(* chain/transaction: the parts of an unsigned transaction.  A BoxId is    *)
(* DigestSize bytes; a ContextExtension is the sequence of its             *)
(* (var_id, constant) entries; a box candidate carries its value, its      *)
(* ergo tree, its creation height, its tokens and its registers.  An ergo  *)
(* tree is the bytes it serializes to, or one whose sigma_serialize fails  *)
(* (ok = FALSE).                                                           *)
(***************************************************************************)
DigestSize == 32

BoxId(b) == [i \in 1..DigestSize |-> b]

UnsignedInput(box_id, extension) == [box_id |-> box_id, extension |-> extension]
DataInput(box_id) == [box_id |-> box_id]
ErgoTree(bytes, ok) == [bytes |-> bytes, ok |-> ok]
ErgoBoxCandidate(value, ergo_tree, creation_height) ==
    [value |-> value, ergo_tree |-> ergo_tree, creation_height |-> creation_height,
     tokens |-> <<>>, additional_registers |-> <<>>]

\* ProverResult and Input: an input with its spending proof
ProofBytes_Empty == "Empty"
ProverResult(proof, extension) == [proof |-> proof, extension |-> extension]
Input(box_id, spending_proof) == [box_id |-> box_id, spending_proof |-> spending_proof]

\* TxId: a Digest32.  blake2b256_hash is a perfect hash: the digest is
\* determined by the bytes hashed and determines them, and the 32 zero
\* bytes of TxId::zero() are the digest of nothing.
TxId(digest) == [digest |-> digest]
TxId_zero == TxId([zero |-> TRUE, of |-> <<>>])
blake2b256_hash(bytes) == [zero |-> FALSE, of |-> bytes]

\* the largest number of inputs, data inputs and outputs of a transaction
\* (i16::MAX in the program)
N_MAX == 2

\* TxIoVec<T>: BoundedVec<T, 1, N_MAX>.  TryFrom<Vec<T>>
BoundedVec_try_from(v) ==
    IF Len(v) < 1 THEN Err("LowerBoundError")
    ELSE IF Len(v) > N_MAX THEN Err("UpperBoundError")
    ELSE Ok(v)

\* BoundedVec::opt_empty_vec: None for the empty vector
BoundedVec_opt_empty_vec(v) ==
    IF v = <<>> THEN Ok(None)
    ELSE LET b == BoundedVec_try_from(v)
         IN  IF b.kind = "Ok" THEN Ok(Some(b.val)) ELSE b

\* Result::map_err(variant) on a Result whose error is not kept
map_err(r, e) == IF r.kind = "Err" THEN Err(e) ELSE r

\* Result::unwrap: the value, or a panic
unwrap(r) ==
    IF r.kind = "Ok" THEN r ELSE [kind |-> "Panic", val |-> Unit, err |-> "unwrap"]

(***************************************************************************)
(* The serialization for signing (spec 6): len(inputs), the inputs in      *)
(* order, each box id, proof (empty: no bytes) and extension;              *)
(* len(data_inputs) and the box ids; len(outputs) and the outputs, each    *)
(* value, length-prefixed ergo tree, creation height, tokens, registers.   *)
(***************************************************************************)
\* a constant of a context extension: its type code and its value
Constant_bytes(v) ==
    CASE v.tag = "Boolean" -> <<1, IF v.v THEN 1 ELSE 0>>

ContextExtension_bytes(ext) ==
    put_u64(Len(ext))
        \o Concat([i \in 1..Len(ext) |-> <<ext[i][1]>> \o Constant_bytes(ext[i][2])])

Input_bytes(inp) ==
    inp.box_id \o ContextExtension_bytes(inp.spending_proof.extension)

ErgoBoxCandidate_serializable(c) == c.ergo_tree.ok

ErgoBoxCandidate_bytes(c) ==
    put_u64(c.value)
        \o put_u64(Len(c.ergo_tree.bytes)) \o c.ergo_tree.bytes
        \o put_u64(c.creation_height)
        \o put_u64(Len(c.tokens))
        \o put_u64(Len(c.additional_registers))

\* Option<TxIoVec<DataInput>> as the vector it stands for
opt_vec(o) == IF o = None THEN <<>> ELSE o[1]

\* Transaction::bytes_to_sign
Transaction_bytes_to_sign(tx) ==
    IF \E i \in 1..Len(tx.output_candidates) :
           ~ErgoBoxCandidate_serializable(tx.output_candidates[i])
    THEN Err("SigmaSerializationError")
    ELSE Ok(put_u64(Len(tx.inputs))
              \o Concat([i \in 1..Len(tx.inputs) |-> Input_bytes(tx.inputs[i])])
              \o put_u64(Len(opt_vec(tx.data_inputs)))
              \o Concat([i \in 1..Len(opt_vec(tx.data_inputs)) |->
                             opt_vec(tx.data_inputs)[i].box_id])
              \o put_u64(Len(tx.output_candidates))
              \o Concat([i \in 1..Len(tx.output_candidates) |->
                             ErgoBoxCandidate_bytes(tx.output_candidates[i])]))

\* Transaction::new: the transaction with its id, or the serialization
\* error of the id's calculation
Transaction_new(inputs, data_inputs, output_candidates) ==
    LET tx_to_sign == [tx_id |-> TxId_zero, inputs |-> inputs,
                       data_inputs |-> data_inputs,
                       output_candidates |-> output_candidates]
        bytes == Transaction_bytes_to_sign(tx_to_sign)
    IN  IF bytes.kind # "Ok" THEN bytes
        ELSE Ok([tx_to_sign EXCEPT !.tx_id = TxId(blake2b256_hash(bytes.val))])

(***************************************************************************)
(* unsigned.rs: UnsignedTransaction.                                       *)
(***************************************************************************)
UnsignedTransaction(tx_id, inputs, data_inputs, output_candidates) ==
    [tx_id |-> tx_id, inputs |-> inputs, data_inputs |-> data_inputs,
     output_candidates |-> output_candidates]

\* fn to_tx_wo_proofs(&self) -> Transaction
to_tx_wo_proofs(self) ==
    LET empty_proofs_input ==
            [i \in 1..Len(self.inputs) |->
                 Input(self.inputs[i].box_id,
                       ProverResult(ProofBytes_Empty, self.inputs[i].extension))]
    IN  unwrap(Transaction_new(empty_proofs_input, self.data_inputs,
                               self.output_candidates))

\* the bytes of a serialization that starts with the transaction's own id
bytes_to_sign_with_id(self) ==
    LET tx == to_tx_wo_proofs(self)
        b == IF tx.kind # "Ok" THEN tx ELSE Transaction_bytes_to_sign(tx.val)
    IN  IF b.kind # "Ok" THEN b
        ELSE Ok((IF self.tx_id = TxId_zero THEN <<0>> ELSE <<1>>) \o b.val)

\* the bytes of a writer nothing was written to
bytes_to_sign_unwritten(self) ==
    LET tx == to_tx_wo_proofs(self)
    IN  IF tx.kind # "Ok" THEN tx ELSE Ok(<<>>)

\* pub fn bytes_to_sign(&self)
bytes_to_sign(self) ==
    LET tx == to_tx_wo_proofs(self)
    IN  IF tx.kind # "Ok" THEN tx ELSE Transaction_bytes_to_sign(tx.val)

\* fn calc_tx_id(&self)
calc_tx_id(self) ==
    LET bytes == bytes_to_sign(self)
    IN  IF bytes.kind # "Ok" THEN bytes ELSE Ok(TxId(blake2b256_hash(bytes.val)))

\* pub fn id(&self)
id(self) == self.tx_id

\* a constructor that returns the transaction it hashed, the placeholder in it
new_keeps_placeholder(inputs, data_inputs, output_candidates) ==
    LET tx_to_sign == UnsignedTransaction(TxId_zero, inputs, data_inputs, output_candidates)
        tx_id == calc_tx_id(tx_to_sign)
    IN  IF tx_id.kind # "Ok" THEN tx_id ELSE Ok(tx_to_sign)

\* pub fn new
new(inputs, data_inputs, output_candidates) ==
    LET tx_to_sign == UnsignedTransaction(TxId_zero, inputs, data_inputs, output_candidates)
        tx_id == calc_tx_id(tx_to_sign)
    IN  IF tx_id.kind # "Ok" THEN tx_id
        ELSE Ok([tx_to_sign EXCEPT !.tx_id = tx_id.val])

\* From<SigmaSerializationError> for TransactionError, applied by `?`
from_ser_error(r) == map_err(r, "SigmaSerializationError")

\* a new_from_vec whose bound violations all map to InvalidInputsCount
new_from_vec_one_variant(inputs, data_inputs, output_candidates) ==
    LET i == map_err(BoundedVec_try_from(inputs), "InvalidInputsCount")
        d == map_err(BoundedVec_opt_empty_vec(data_inputs), "InvalidInputsCount")
        o == map_err(BoundedVec_try_from(output_candidates), "InvalidInputsCount")
    IN  IF i.kind # "Ok" THEN i
        ELSE IF d.kind # "Ok" THEN d
        ELSE IF o.kind # "Ok" THEN o
        ELSE from_ser_error(new(i.val, d.val, o.val))

\* pub fn new_from_vec: the arguments of `new` are evaluated in order, each
\* with its `?`
new_from_vec(inputs, data_inputs, output_candidates) ==
    LET i == map_err(BoundedVec_try_from(inputs), "InvalidInputsCount")
        d == map_err(BoundedVec_opt_empty_vec(data_inputs), "InvalidDataInputsCount")
        o == map_err(BoundedVec_try_from(output_candidates), "InvalidOutputCandidatesCount")
    IN  IF i.kind # "Ok" THEN i
        ELSE IF d.kind # "Ok" THEN d
        ELSE IF o.kind # "Ok" THEN o
        ELSE from_ser_error(new(i.val, d.val, o.val))

\* json::transaction::UnsignedTransactionJson
UnsignedTransactionJson(inputs, data_inputs, outputs) ==
    [inputs |-> inputs, data_inputs |-> data_inputs, outputs |-> outputs]

\* an encoding that writes the data inputs last to first
UnsignedTransactionJson_from_reversed(v) ==
    LET d == opt_vec(v.data_inputs)
    IN  UnsignedTransactionJson(v.inputs,
                                [i \in 1..Len(d) |-> d[Len(d) + 1 - i]],
                                v.output_candidates)

\* impl From<UnsignedTransaction> for UnsignedTransactionJson
UnsignedTransactionJson_from(v) ==
    UnsignedTransactionJson(v.inputs, opt_vec(v.data_inputs), v.output_candidates)

\* an error converted into the caller's error type keeps its text after the
\* caller's prefix; Ok and a panic pass unchanged
err_into(r, prefix) == IF r.kind = "Err" THEN Err(prefix \o r.err) ELSE r

\* impl TryFrom<UnsignedTransactionJson> for UnsignedTransaction
UnsignedTransaction_try_from(tx_json_v) ==
    err_into(new_from_vec(tx_json_v.inputs, tx_json_v.data_inputs, tx_json_v.outputs),
             "TryFrom<UnsignedTransactionJson> error: ")

(***************************************************************************)
(* The transactions built.  The vectors handed to a constructor have from  *)
(* no element to N_MAX elements, or one more than N_MAX; MaxToSign is the  *)
(* number of calls of bytes_to_sign made on one transaction.               *)
(***************************************************************************)
MaxToSign == 2

SeqsUpTo(S, n) == UNION {[1..k -> S] : k \in 0..n}
\* the vectors of at most N_MAX elements of S, and one of N_MAX + 1
VecsOf(S, x) == SeqsUpTo(S, N_MAX) \cup {[i \in 1..N_MAX + 1 |-> x]}

\* the input of scenario 6 (the all-zero box id), and one with an extension
ZeroInput == UnsignedInput(BoxId(0), <<>>)
ExtInput == UnsignedInput(BoxId(1), << <<1, Boolean(TRUE)>> >>)
\* the output of scenario 6, another one, and one that does not serialize
Scenario6Output == ErgoBoxCandidate(1000000, ErgoTree(<<>>, TRUE), 0)
OtherOutput == ErgoBoxCandidate(1, ErgoTree(<<0, 8, 205>>, TRUE), 1)
BadOutput == ErgoBoxCandidate(1, ErgoTree(<<>>, FALSE), 1)

InputVecs == VecsOf({ZeroInput, ExtInput}, ZeroInput)
DataInputVecs == VecsOf({DataInput(BoxId(2)), DataInput(BoxId(3))}, DataInput(BoxId(2)))
OutputVecs == VecsOf({Scenario6Output, OtherOutput, BadOutput}, Scenario6Output)

TxVecs ==
    {[inputs |-> i, data_inputs |-> d, output_candidates |-> o] :
         i \in InputVecs, d \in DataInputVecs, o \in OutputVecs}

\* the vectors are values of the types `new` takes
FitsNew(v) ==
    /\ BoundedVec_try_from(v.inputs).kind = "Ok"
    /\ BoundedVec_opt_empty_vec(v.data_inputs).kind = "Ok"
    /\ BoundedVec_try_from(v.output_candidates).kind = "Ok"

TxInit ==
    /\ tx_vecs \in TxVecs
    /\ unsigned_tx = NoResult
    /\ rebuilt = NoResult
    /\ to_sign = <<>>
    /\ tx_json = None
    /\ from_json = NoResult
    /\ EvalIdle /\ FfiIdle /\ SerIdle /\ PeerIdle

TxOthersUnchanged == UNCHANGED <<evalvars, ffivars, servars, peervars>>

\* UnsignedTransaction::new_from_vec(inputs, data_inputs, output_candidates)
NewFromVec ==
    /\ unsigned_tx = NoResult
    /\ unsigned_tx' = new_from_vec(tx_vecs.inputs, tx_vecs.data_inputs,
                                   tx_vecs.output_candidates)
    /\ UNCHANGED <<tx_vecs, rebuilt, to_sign, tx_json, from_json>>
    /\ TxOthersUnchanged

\* UnsignedTransaction::new on bounded vectors of the same elements
New ==
    /\ unsigned_tx = NoResult
    /\ FitsNew(tx_vecs)
    /\ unsigned_tx' = new(tx_vecs.inputs,
                          BoundedVec_opt_empty_vec(tx_vecs.data_inputs).val,
                          tx_vecs.output_candidates)
    /\ UNCHANGED <<tx_vecs, rebuilt, to_sign, tx_json, from_json>>
    /\ TxOthersUnchanged

\* a second construction from the same vectors
NewFromVecAgain ==
    /\ unsigned_tx # NoResult
    /\ rebuilt = NoResult
    /\ rebuilt' = new_from_vec(tx_vecs.inputs, tx_vecs.data_inputs,
                               tx_vecs.output_candidates)
    /\ UNCHANGED <<tx_vecs, unsigned_tx, to_sign, tx_json, from_json>>
    /\ TxOthersUnchanged

\* unsigned_tx.bytes_to_sign()
BytesToSign ==
    /\ unsigned_tx.kind = "Ok"
    /\ Len(to_sign) < MaxToSign
    /\ to_sign' = Append(to_sign, bytes_to_sign(unsigned_tx.val))
    /\ UNCHANGED <<tx_vecs, unsigned_tx, rebuilt, tx_json, from_json>>
    /\ TxOthersUnchanged

\* UnsignedTransactionJson::from(unsigned_tx)
ToJson ==
    /\ unsigned_tx.kind = "Ok"
    /\ tx_json = None
    /\ tx_json' = Some(UnsignedTransactionJson_from(unsigned_tx.val))
    /\ UNCHANGED <<tx_vecs, unsigned_tx, rebuilt, to_sign, from_json>>
    /\ TxOthersUnchanged

\* a JSON document that did not come from a transaction: any three arrays
ReceiveJson ==
    /\ unsigned_tx = NoResult
    /\ tx_json = None
    /\ tx_json' = Some(UnsignedTransactionJson(tx_vecs.inputs, tx_vecs.data_inputs,
                                               tx_vecs.output_candidates))
    /\ UNCHANGED <<tx_vecs, unsigned_tx, rebuilt, to_sign, from_json>>
    /\ TxOthersUnchanged

\* UnsignedTransaction::try_from(tx_json)
FromJson ==
    /\ tx_json # None
    /\ from_json = NoResult
    /\ from_json' = UnsignedTransaction_try_from(tx_json[1])
    /\ UNCHANGED <<tx_vecs, unsigned_tx, rebuilt, to_sign, tx_json>>
    /\ TxOthersUnchanged

TxNext ==
    NewFromVec \/ New \/ NewFromVecAgain \/ BytesToSign \/ ToJson \/ ReceiveJson \/ FromJson

allvars == <<evalvars, txvars, ffivars, servars, peervars>>

TxSpec == TxInit /\ [][TxNext]_allvars

(***************************************************************************)
(* What the transaction claims are stated over.                            *)
(***************************************************************************)
\* the results of the constructions made from tx_vecs
Constructed == {r \in {unsigned_tx, rebuilt} : r # NoResult}

InBounds(v, lo) == lo <= Len(v) /\ Len(v) <= N_MAX
InputsOk == InBounds(tx_vecs.inputs, 1)
DataInputsOk == InBounds(tx_vecs.data_inputs, 0)
OutputsOk == InBounds(tx_vecs.output_candidates, 1)

\* every output of tx_vecs serializes
Serializable ==
    \A i \in 1..Len(tx_vecs.output_candidates) :
        ErgoBoxCandidate_serializable(tx_vecs.output_candidates[i])

(***************************************************************************)
(* C11.  new_from_vec returns Ok only when 1 <= |inputs| <= N_MAX,         *)
(* |data_inputs| <= N_MAX and 1 <= |output_candidates| <= N_MAX.  A vector *)
(* out of its bounds is rejected with the variant of its own bound:        *)
(* InvalidInputsCount for an empty or oversized inputs vector,             *)
(* InvalidDataInputsCount for an oversized data_inputs vector,             *)
(* InvalidOutputCandidatesCount for an empty or oversized outputs vector   *)
(* (of several vectors out of bounds, the first in argument order is the   *)
(* one reported).  An empty data_inputs vector is accepted and stored as   *)
(* None, any other as Some of the vector; inputs and outputs are stored as *)
(* given.                                                                  *)
(***************************************************************************)
C11_NewFromVecBounds ==
    \A r \in Constructed :
        /\ r.kind = "Ok" => (InputsOk /\ DataInputsOk /\ OutputsOk)
        /\ ~InputsOk => r = Err("InvalidInputsCount")
        /\ (InputsOk /\ ~DataInputsOk) => r = Err("InvalidDataInputsCount")
        /\ (InputsOk /\ DataInputsOk /\ ~OutputsOk)
               => r = Err("InvalidOutputCandidatesCount")
        /\ ~(InputsOk /\ DataInputsOk /\ OutputsOk) =>
               /\ r.kind = "Err"
               /\ \/ r.err = "InvalidInputsCount" /\ ~InputsOk
                  \/ r.err = "InvalidDataInputsCount" /\ ~DataInputsOk
                  \/ r.err = "InvalidOutputCandidatesCount" /\ ~OutputsOk
        /\ (InputsOk /\ DataInputsOk /\ OutputsOk /\ Serializable) =>
               /\ r.kind = "Ok"
               /\ r.val.inputs = tx_vecs.inputs
               /\ r.val.output_candidates = tx_vecs.output_candidates
               /\ r.val.data_inputs =
                      (IF tx_vecs.data_inputs = <<>> THEN None
                       ELSE Some(tx_vecs.data_inputs))

\* N_MAX inputs, no data inputs: accepted, the data inputs stored as None
C11_Witness ==
    /\ unsigned_tx.kind = "Ok"
    /\ Len(tx_vecs.inputs) = N_MAX
    /\ tx_vecs.data_inputs = <<>>
    /\ unsigned_tx.val.data_inputs = None
    /\ rebuilt = unsigned_tx

\* every transaction a construction returned: by new or new_from_vec, or by
\* decoding JSON
Transactions == {r.val : r \in {r \in {unsigned_tx, rebuilt, from_json} : r.kind = "Ok"}}

(***************************************************************************)
(* C12.  After every successful construction (new, new_from_vec, decoding  *)
(* of JSON) the cached tx_id that id() returns is blake2b-256 of what      *)
(* bytes_to_sign() returns on the constructed transaction, and of what     *)
(* every later call of bytes_to_sign returned; it is not the zero          *)
(* placeholder, and the bytes are the same with the placeholder in the     *)
(* place of the id.                                                        *)
(***************************************************************************)
C12_CachedIdIsRecomputed ==
    /\ \A t \in Transactions :
           LET bytes == bytes_to_sign(t)
           IN  /\ bytes.kind = "Ok"
               /\ id(t) = TxId(blake2b256_hash(bytes.val))
               /\ id(t) # TxId_zero
               /\ bytes_to_sign([t EXCEPT !.tx_id = TxId_zero]) = bytes
    /\ \A i \in 1..Len(to_sign) :
           /\ to_sign[i].kind = "Ok"
           /\ id(unsigned_tx.val) = TxId(blake2b256_hash(to_sign[i].val))

\* a transaction built, decoded from its JSON, and its bytes_to_sign called
C12_Witness ==
    /\ unsigned_tx.kind = "Ok"
    /\ from_json.kind = "Ok"
    /\ Len(to_sign) >= 1
    /\ to_sign[1].kind = "Ok"
    /\ id(from_json.val) = TxId(blake2b256_hash(to_sign[1].val))

\* the serialization for signing of the three vectors given, the proofs empty
SigningBytesOf(v) ==
    Transaction_bytes_to_sign(
        [inputs |-> [i \in 1..Len(v.inputs) |->
                         Input(v.inputs[i].box_id,
                               ProverResult(ProofBytes_Empty, v.inputs[i].extension))],
         data_inputs |-> IF v.data_inputs = <<>> THEN None ELSE Some(v.data_inputs),
         output_candidates |-> v.output_candidates])

C14_BytesToSignNonEmpty ==
    /\ \A t \in Transactions :
           /\ Len(t.inputs) >= 1 /\ Len(t.output_candidates) >= 1
           /\ bytes_to_sign(t).kind = "Ok"
           /\ bytes_to_sign(t).val # <<>>
           /\ Len(bytes_to_sign(t).val) > DigestSize
    /\ \A i \in 1..Len(to_sign) :
           /\ to_sign[i].kind = "Ok"
           /\ to_sign[i].val # <<>>

\* scenario 6 of the spec
C14_Witness ==
    /\ tx_vecs = [inputs |-> <<ZeroInput>>, data_inputs |-> <<>>,
                  output_candidates |-> <<Scenario6Output>>]
    /\ unsigned_tx.kind = "Ok"
    /\ Len(to_sign) >= 1
    /\ to_sign[1].kind = "Ok"
    /\ to_sign[1].val # <<>>

RECURSIVE MagVlq(_)
MagVlq(m) ==
    LET d == MagDivMod(m, <<128>>)
        low == IF d.r = <<>> THEN 0 ELSE d.r[1]
    IN  IF d.q = <<>> THEN <<low>> ELSE <<128 + low>> \o MagVlq(d.q)

\* and read back, as get_u64 reads it
RECURSIVE MagUnVlq(_)
MagUnVlq(r) ==
    IF r = <<>> THEN ReadErr("Io")
    ELSE IF r[1] < 128 THEN ReadOk(MagOfNat(r[1]), Tail(r))
    ELSE LET t == MagUnVlq(Tail(r))
         IN  IF ~t.ok THEN t
             ELSE ReadOk(MagAdd(MagOfNat(r[1] - 128), MagMulLimb(t.val, 128)), t.rest)

\* zig-zag: 0, -1, 1, -2, ... as 0, 1, 2, 3, ...
ZigZag(x) == IF x.neg THEN MagSub(MagMulLimb(x.mag, 2), <<1>>) ELSE MagMulLimb(x.mag, 2)
UnZigZag(u) ==
    LET d == MagDivMod(u, <<2>>)
    IN  IF d.r = <<>> THEN Num(FALSE, d.q) ELSE Num(TRUE, MagAdd(d.q, <<1>>))

\* SType: the type of a value is its variant
SBoolean == "Boolean"
TypeCodes == [Boolean |-> 1, Byte |-> 2, Short |-> 3, Int |-> 4, Long |-> 5]
TypedTags == DOMAIN TypeCodes

\* an i8 as the byte that holds it
ByteOf(x) ==
    LET n == IF x.mag = <<>> THEN 0 ELSE x.mag[1] IN IF x.neg THEN 256 - n ELSE n
OfByte(b) == IF b < 128 THEN NumOf(b) ELSE NumOf(b - 256)

Value_sigma_serialize(v) ==
    <<TypeCodes[v.tag]>> \o
        (CASE v.tag = "Boolean" -> <<IF v.v THEN 1 ELSE 0>>
           [] v.tag = "Byte" -> <<ByteOf(v.v)>>
           [] OTHER -> MagVlq(ZigZag(v.v)))

Value_sigma_parse(r) ==
    IF r = <<>> THEN ReadErr("Io")
    ELSE IF \A T \in TypedTags : TypeCodes[T] # r[1] THEN ReadErr("InvalidTypeCode")
    ELSE LET T == CHOOSE T \in TypedTags : TypeCodes[T] = r[1]
             p == Tail(r)
         IN  CASE T = "Boolean" ->
                      IF p = <<>> THEN ReadErr("Io")
                      ELSE ReadOk(Boolean(p[1] # 0), Tail(p))
               [] T = "Byte" ->
                      IF p = <<>> THEN ReadErr("Io")
                      ELSE ReadOk(Value("Byte", OfByte(p[1])), Tail(p))
               [] OTHER ->
                      LET u == MagUnVlq(p)
                      IN  IF ~u.ok THEN u
                          ELSE IF ~InRange(T, UnZigZag(u.val)) THEN ReadErr("VlqDecode")
                          ELSE ReadOk(Value(T, UnZigZag(u.val)), u.rest)

\* OpCode: one byte a node kind
OpCode_Const == 0
OpCode_IF == 149
OpCodeOf(kind) ==
    IF kind.cls = "Arith"
    THEN CASE kind.op = "Minus" -> 153 [] kind.op = "Plus" -> 154
           [] kind.op = "Multiply" -> 156 [] kind.op = "Divide" -> 157
           [] kind.op = "Min" -> 161 [] kind.op = "Max" -> 162
    ELSE CASE kind.op = "LT" -> 143 [] kind.op = "LE" -> 144
           [] kind.op = "GT" -> 145 [] kind.op = "GE" -> 146
           [] kind.op = "Eq" -> 147 [] kind.op = "NEq" -> 148
           [] kind.op = "Or" -> 236 [] kind.op = "And" -> 237

\* Expr::tpe; If::tpe is the type of the true branch
RECURSIVE tpe(_)
tpe(e) ==
    CASE e.node = "Const" -> e.v.tag
      [] e.node = "BinOp" -> IF e.kind.cls = "Relation" THEN SBoolean ELSE tpe(e.left)
      [] e.node = "If" -> tpe(e.true_branch)

RECURSIVE Expr_sigma_serialize(_)

\* an If written with the branches exchanged
If_sigma_serialize_swapped(e) ==
    Expr_sigma_serialize(e.condition)
        \o Expr_sigma_serialize(e.false_branch)
        \o Expr_sigma_serialize(e.true_branch)

\* impl SigmaSerializable for If: sigma_serialize
If_sigma_serialize(e) ==
    Expr_sigma_serialize(e.condition)
        \o Expr_sigma_serialize(e.true_branch)
        \o Expr_sigma_serialize(e.false_branch)

\* Expr::sigma_serialize: the opcode, then the node's own sigma_serialize
Expr_sigma_serialize(e) ==
    CASE e.node = "Const" -> <<OpCode_Const>> \o Value_sigma_serialize(e.v)
      [] e.node = "BinOp" ->
             <<OpCodeOf(e.kind)>> \o Expr_sigma_serialize(e.left)
                 \o Expr_sigma_serialize(e.right)
      [] e.node = "If" -> <<OpCode_IF>> \o If_sigma_serialize(e)

RECURSIVE Expr_sigma_parse(_)

\* impl SigmaSerializable for If: sigma_parse
If_sigma_parse(r) ==
    LET condition == Expr_sigma_parse(r)
    IN  IF ~condition.ok THEN condition
        ELSE LET true_branch == Expr_sigma_parse(condition.rest)
             IN  IF ~true_branch.ok THEN true_branch
                 ELSE LET false_branch == Expr_sigma_parse(true_branch.rest)
                      IN  IF ~false_branch.ok THEN false_branch
                          ELSE ReadOk(If(condition.val, true_branch.val,
                                         false_branch.val),
                                      false_branch.rest)

BinOp_sigma_parse(kind, r) ==
    LET left == Expr_sigma_parse(r)
    IN  IF ~left.ok THEN left
        ELSE LET right == Expr_sigma_parse(left.rest)
             IN  IF ~right.ok THEN right
                 ELSE ReadOk(BinOp(kind, left.val, right.val), right.rest)

\* Expr::sigma_parse: the opcode chooses the node's sigma_parse
Expr_sigma_parse(r) ==
    IF r = <<>> THEN ReadErr("Io")
    ELSE IF r[1] = OpCode_Const THEN
        LET v == Value_sigma_parse(Tail(r))
        IN  IF ~v.ok THEN v ELSE ReadOk(Const(v.val), v.rest)
    ELSE IF r[1] = OpCode_IF THEN If_sigma_parse(Tail(r))
    ELSE IF \E k \in BinOpKinds : OpCodeOf(k) = r[1]
    THEN BinOp_sigma_parse(CHOOSE k \in BinOpKinds : OpCodeOf(k) = r[1], Tail(r))
    ELSE ReadErr("NotImplementedOpCode")

\* a read as a Result
AsResult(rd) == IF rd.ok THEN Ok(rd.val) ELSE Err(rd.err)

(***************************************************************************)
(* The expressions serialized: an If of a boolean condition and two        *)
(* branches of one type (the Arbitrary of the tests), and the bytes a      *)
(* reader is given: the serialization of an If of any two branches, whole  *)
(* or cut short by up to CutBy bytes.                                      *)
(***************************************************************************)
CutBy == 1

Conditions ==
    {Const(Boolean(TRUE)), Const(Boolean(FALSE)),
     BinOp(Relation("GT"), Const(LongV(2)), Const(LongV(1))),
     BinOp(Relation("And"), Const(Boolean(TRUE)), Const(Boolean(FALSE)))}

Branches ==
    {Const(Value(T, x)) : T \in {"Long"}, x \in NumsOf("Long")}
        \cup {Const(Value("Int", MinOf("Int"))), Const(Value("Int", MaxOf("Int"))),
              Const(Value("Short", MinOf("Short"))), Const(Value("Short", NumOf(300))),
              Const(ByteV(-128)), Const(ByteV(-1)), Const(ByteV(127)),
              Const(Boolean(TRUE)), Const(Boolean(FALSE)),
              BinOp(Arith("Plus"), Const(LongV(1)), Const(LongV(1))),
              DivByZero("Long"),
              If(Const(Boolean(TRUE)), Const(LongV(1)), DivByZero("Long")),
              If(Const(Boolean(FALSE)), Const(Boolean(TRUE)), Const(Boolean(FALSE)))}

AnyIfs == {If(c, t, f) : c \in Conditions, t \in Branches, f \in Branches}
WellTyped(e) ==
    /\ tpe(e.condition) = SBoolean
    /\ tpe(e.true_branch) = tpe(e.false_branch)
WellTypedIfs == {e \in AnyIfs : WellTyped(e)}

\* the branches of the Ifs whose bytes a reader is given
WireBranches ==
    {Const(LongV(1)), Const(Value("Int", MaxOf("Int"))), Const(ByteV(127)),
     Const(Boolean(FALSE)), DivByZero("Long"),
     If(Const(Boolean(FALSE)), Const(Boolean(TRUE)), Const(Boolean(FALSE)))}
WireIfs == {If(c, t, f) : c \in Conditions, t \in WireBranches, f \in WireBranches}

\* the bytes but the last k
CutShort(bytes, k) == SubSeq(bytes, 1, Len(bytes) - k)

SerInit ==
    /\ parsed = NoResult
    /\ \/ ser_expr \in WellTypedIfs /\ ser_bytes = <<>>
       \/ /\ ser_expr = Const(Unit)
          /\ \E e \in WireIfs, k \in 0..CutBy :
                 ser_bytes = CutShort(Expr_sigma_serialize(e), k)
    /\ EvalIdle /\ TxIdle /\ FfiIdle /\ PeerIdle

\* expr.sigma_serialize(w) on an empty writer
SigmaSerialize ==
    /\ ser_expr.node = "If"
    /\ ser_bytes = <<>>
    /\ ser_bytes' = Expr_sigma_serialize(ser_expr)
    /\ UNCHANGED <<ser_expr, parsed>>
    /\ UNCHANGED <<evalvars, txvars, ffivars, peervars>>

\* Expr::sigma_parse(r) on a reader of the bytes
SigmaParse ==
    /\ ser_bytes # <<>>
    /\ parsed = NoResult
    /\ parsed' = AsResult(Expr_sigma_parse(ser_bytes))
    /\ UNCHANGED <<ser_expr, ser_bytes>>
    /\ UNCHANGED <<evalvars, txvars, ffivars, peervars>>

SerNext == SigmaSerialize \/ SigmaParse

SerSpec == SerInit /\ [][SerNext]_allvars

(***************************************************************************)
(* C16.  The serialization of an If whose condition is boolean and whose   *)
(* branches are of one type is the IF opcode and then the condition, the   *)
(* true branch and the false branch, in that order; parsing it returns an  *)
(* expression equal to the If that was written.                            *)
(***************************************************************************)
C16_IfSerializationRoundTrip ==
    (ser_expr.node = "If" /\ ser_bytes # <<>>) =>
        /\ ser_bytes = <<OpCode_IF>> \o Expr_sigma_serialize(ser_expr.condition)
                           \o Expr_sigma_serialize(ser_expr.true_branch)
                           \o Expr_sigma_serialize(ser_expr.false_branch)
        /\ parsed # NoResult => parsed = Ok(ser_expr)

\* an If with i64::MIN and i64::MAX in its branches, written and read back
C16_Witness ==
    /\ ser_expr = If(BinOp(Relation("GT"), Const(LongV(2)), Const(LongV(1))),
                     Const(Value("Long", MinOf("Long"))),
                     Const(Value("Long", MaxOf("Long"))))
    /\ parsed = Ok(ser_expr)

(***************************************************************************)
(* C17.  Every If that sigma_parse returns has a true branch and a false   *)
(* branch of the same type (the type If::tpe reports): the bytes of an If  *)
(* whose branches differ in type are a decode error.                       *)
(***************************************************************************)
C17_ParsedIfBranchesUnify ==
    (parsed.kind = "Ok" /\ parsed.val.node = "If") =>
        /\ tpe(parsed.val.true_branch) = tpe(parsed.val.false_branch)
        /\ tpe(parsed.val) = tpe(parsed.val.false_branch)

(***************************************************************************)
(* peer_addr.rs: the Scorex serialization of a peer address.               *)
(***************************************************************************)
\* u16::MAX
U16Max == 65535

\* PeerAddr(pub SocketAddr)
PeerAddr(socket_addr) == socket_addr

\* fn scorex_serialize(&self, w): the result and the writer after the call
scorex_serialize(self, w) ==
    IF self.ip.v # "V4"
    THEN [res |-> Err("NotSupported"), w |-> w]
    ELSE [res |-> Ok(Unit), w |-> w \o self.ip.octets \o put_u64(self.port)]

\* r.read_exact(&mut fa) for a buffer of n bytes
read_exact(r, n) ==
    IF Len(r) < n THEN ReadErr("Io")
    ELSE ReadOk(SubSeq(r, 1, n), SubSeq(r, n + 1, Len(r)))

\* a conversion of the port value that keeps its low 16 bits (`as u16`)
u16_try_from_wrapping(v) == Ok(v % (U16Max + 1))

\* u16::try_from(u32)
u16_try_from(v) == IF v <= U16Max THEN Ok(v) ELSE Err("TryFromIntError")

\* fn scorex_parse(r)
scorex_parse(r) ==
    LET fa == read_exact(r, 4)
    IN  IF ~fa.ok THEN Err(fa.err)
        ELSE LET v == get_u64(fa.rest)
             IN  IF ~v.ok THEN Err(v.err)
                 ELSE LET port == u16_try_from(v.val)
                      IN  IF port.kind # "Ok" THEN port
                          ELSE Ok(PeerAddr(SocketAddr("V4", fa.val, port.val)))

(***************************************************************************)
(* The addresses serialized: IPv4 addresses of the octets of Octets and    *)
(* the ports of Ports, and two IPv6 addresses; and the bytes a reader is   *)
(* given: four octets and the VLQ of a port value, of 16 bits or more,     *)
(* whole or cut short.                                                     *)
(***************************************************************************)
Octets == {0, 127, 255}
Ports == {0, 1, 127, 128, 16383, 16384, U16Max}
WidePorts == {U16Max + 1, 70000, 2147483647}

Ipv4Addrs == {<<a, b, c, d>> : a \in Octets, b \in Octets, c \in Octets, d \in Octets}
Ipv6Addrs == {[i \in 1..16 |-> 0], [i \in 1..16 |-> IF i = 16 THEN 1 ELSE 0]}

PeerAddrs ==
    {PeerAddr(SocketAddr("V4", ip, port)) : ip \in Ipv4Addrs, port \in Ports}
        \cup {PeerAddr(SocketAddr("V6", ip, port)) : ip \in Ipv6Addrs, port \in Ports}

PeerReaderInputs ==
    {ip \o put_u64(v) : ip \in {<<127, 0, 0, 1>>, <<255, 255, 255, 255>>},
                        v \in Ports \cup WidePorts}
        \cup {<<127, 0, 0>>, <<127, 0, 0, 1>>, <<127, 0, 0, 1, 255>>}

PeerInit ==
    /\ peer_ser = NoResult
    /\ peer_parsed = NoResult
    /\ \/ peer_addr \in PeerAddrs /\ peer_w = <<>>
       \/ peer_addr = NoAddr /\ peer_w \in PeerReaderInputs
    /\ EvalIdle /\ TxIdle /\ FfiIdle /\ SerIdle

\* peer_addr.scorex_serialize(&mut w)
ScorexSerialize ==
    /\ peer_addr # NoAddr
    /\ peer_ser = NoResult
    /\ peer_ser' = scorex_serialize(peer_addr, peer_w).res
    /\ peer_w' = scorex_serialize(peer_addr, peer_w).w
    /\ UNCHANGED <<peer_addr, peer_parsed>>
    /\ UNCHANGED <<evalvars, txvars, ffivars, servars>>

\* PeerAddr::scorex_parse(&mut r) on a reader of the bytes
ScorexParse ==
    /\ peer_w # <<>>
    /\ peer_parsed = NoResult
    /\ peer_parsed' = scorex_parse(peer_w)
    /\ UNCHANGED <<peer_addr, peer_w, peer_ser>>
    /\ UNCHANGED <<evalvars, txvars, ffivars, servars>>

PeerNext == ScorexSerialize \/ ScorexParse

PeerSpec == PeerInit /\ [][PeerNext]_allvars

(***************************************************************************)
(* C18.  Serializing an IPv4 peer address writes its four octets and the   *)
(* VLQ of its port and returns Ok, and parsing those bytes returns the     *)
(* address, for every port of 16 bits.  Serializing an IPv6 peer address   *)
(* returns NotSupported and writes nothing.  Parsing four octets and a     *)
(* port value fails when the value does not fit in 16 bits, and returns    *)
(* the address of the octets and the port when it does.                    *)
(***************************************************************************)
C18_PeerAddrRoundTrip ==
    /\ (peer_addr.ip.v = "V4" /\ peer_ser # NoResult) =>
           /\ peer_ser = Ok(Unit)
           /\ peer_w = peer_addr.ip.octets \o put_u64(peer_addr.port)
           /\ peer_parsed # NoResult => peer_parsed = Ok(peer_addr)
    /\ (peer_addr.ip.v = "V6" /\ peer_ser # NoResult) =>
           /\ peer_ser = Err("NotSupported")
           /\ peer_w = <<>>
    /\ (peer_parsed # NoResult /\ Len(peer_w) > 4) =>
           LET v == get_u64(SubSeq(peer_w, 5, Len(peer_w)))
           IN  /\ (v.ok /\ v.val > U16Max) => peer_parsed.kind = "Err"
               /\ (v.ok /\ v.val <= U16Max) =>
                      peer_parsed = Ok(PeerAddr(SocketAddr("V4", SubSeq(peer_w, 1, 4), v.val)))

\* 255.255.255.255:65535 written and read back
C18_Witness ==
    /\ peer_addr = PeerAddr(SocketAddr("V4", <<255, 255, 255, 255>>, U16Max))
    /\ peer_ser = Ok(Unit)
    /\ peer_w = <<255, 255, 255, 255, 255, 255, 3>>
    /\ peer_parsed = Ok(peer_addr)

(***************************************************************************)
(* bindings/ergo-lib-c-core/src/transaction.rs: unsigned_tx_from_json.     *)
(* The heap is the sequence of the transactions allocated; a pointer to a  *)
(* transaction is its place in it.                                         *)
(***************************************************************************)
MiscCantDeserialize == "Misc: UnsignedTransaction: can't deserialize from JSON"

\* util::mut_ptr_as_mut(ptr, name): the reference, or an error for null
mut_ptr_as_mut(ptr, name) ==
    IF ptr = "null" THEN Err("InvalidArgument: " \o name) ELSE Ok(Unit)

\* serde_json::from_str::<UnsignedTransaction>(json): the text is parsed as
\* an UnsignedTransactionJson and converted by try_from (serde(try_from))
serde_json_from_str(json) ==
    IF ~json.wellformed THEN Err("serde_json::Error: syntax")
    ELSE err_into(UnsignedTransaction_try_from(json.v), "serde_json::Error: ")

\* what the call returns and leaves: its result, the caller's handle, the heap
FfiOut(res, out, hp) == [res |-> res, out |-> out, heap |-> hp]

\* the `?` after map_err, then *unsigned_tx_out = Box::into_raw(Box::new(..))
box_into_out(unsigned_tx_v, out, hp) ==
    IF unsigned_tx_v.kind # "Ok" THEN FfiOut(unsigned_tx_v, out, hp)
    ELSE FfiOut(Ok(Unit),
                [written |-> TRUE, ptr |-> Len(hp) + 1],
                Append(hp, unsigned_tx_v.val))

\* a call that clears the caller's handle before it decodes
unsigned_tx_from_json_clears_out(json, unsigned_tx_out_ptr, out, hp) ==
    IF mut_ptr_as_mut(unsigned_tx_out_ptr, "unsigned_tx_out").kind # "Ok"
    THEN FfiOut(mut_ptr_as_mut(unsigned_tx_out_ptr, "unsigned_tx_out"), out, hp)
    ELSE box_into_out(map_err(serde_json_from_str(json), MiscCantDeserialize),
                      [written |-> TRUE, ptr |-> 0], hp)

\* pub unsafe fn unsigned_tx_from_json(json, unsigned_tx_out)
unsigned_tx_from_json(json, unsigned_tx_out_ptr, out, hp) ==
    IF mut_ptr_as_mut(unsigned_tx_out_ptr, "unsigned_tx_out").kind # "Ok"
    THEN FfiOut(mut_ptr_as_mut(unsigned_tx_out_ptr, "unsigned_tx_out"), out, hp)
    ELSE box_into_out(map_err(serde_json_from_str(json), MiscCantDeserialize), out, hp)

\* the text given is one that is no JSON of a transaction, or the JSON of any
\* three arrays
FfiInit ==
    /\ \/ ffi_json = JsonText(FALSE, NoVecs)
       \/ \E v \in TxVecs :
              ffi_json = JsonText(TRUE, UnsignedTransactionJson(v.inputs, v.data_inputs,
                                                                v.output_candidates))
    /\ ffi_out_ptr \in {"null", "valid"}
    /\ unsigned_tx_out = Unwritten
    /\ heap = <<>>
    /\ ffi_result = NoResult
    /\ EvalIdle /\ TxIdle /\ SerIdle /\ PeerIdle

\* what the call leaves behind
Returned(out) ==
    /\ ffi_result' = out.res
    /\ unsigned_tx_out' = out.out
    /\ heap' = out.heap

\* the call, whole: its result, the write through the pointer, the allocation
UnsignedTxFromJson ==
    /\ ffi_result = NoResult
    /\ Returned(unsigned_tx_from_json(ffi_json, ffi_out_ptr, unsigned_tx_out, heap))
    /\ UNCHANGED <<ffi_json, ffi_out_ptr>>
    /\ UNCHANGED <<evalvars, txvars, servars, peervars>>

FfiNext == UnsignedTxFromJson

FfiSpec == FfiInit /\ [][FfiNext]_allvars

\* the text is no JSON of a transaction, or an array of it is out of bounds
DecodingFails ==
    \/ ~ffi_json.wellformed
    \/ ~(InBounds(ffi_json.v.inputs, 1) /\ InBounds(ffi_json.v.data_inputs, 0)
             /\ InBounds(ffi_json.v.outputs, 1))

(***************************************************************************)
(* C19.  unsigned_tx_from_json returns the one error Misc, a string that   *)
(* is the same for malformed JSON and for every bound violation, whenever  *)
(* the decoding fails, and then leaves the caller's handle unwritten and   *)
(* allocates nothing.  The handle is written only when the call returns    *)
(* Ok, with a pointer to a newly allocated transaction, the one decoded.   *)
(* A null pointer argument yields an error and no write.                   *)
(***************************************************************************)
C19_FfiJsonErrorsAreMisc ==
    ffi_result # NoResult =>
        /\ ffi_out_ptr = "null" =>
               /\ ffi_result.kind = "Err"
               /\ unsigned_tx_out = Unwritten
               /\ heap = <<>>
        /\ (ffi_out_ptr # "null" /\ DecodingFails) =>
               /\ ffi_result = Err(MiscCantDeserialize)
               /\ unsigned_tx_out = Unwritten
               /\ heap = <<>>
        /\ unsigned_tx_out.written <=> ffi_result = Ok(Unit)
        /\ ffi_result = Ok(Unit) =>
               /\ ~DecodingFails
               /\ Len(heap) = 1
               /\ unsigned_tx_out.ptr = 1
               /\ Ok(heap[1]) = new_from_vec(ffi_json.v.inputs, ffi_json.v.data_inputs,
                                             ffi_json.v.outputs)

\* a JSON without inputs, a valid pointer: Misc, the handle as it was
C19_Witness ==
    /\ ffi_out_ptr = "valid"
    /\ ffi_json.wellformed
    /\ ffi_json.v.inputs = <<>>
    /\ ffi_result = Err(MiscCantDeserialize)
    /\ unsigned_tx_out = Unwritten

\* the root BinOp's left operand, evaluated after the root's cost charge
LeftOut ==
    Expr_eval(expr.left, <<"left">>, cost_accum_add(Entered(StartCtx, <<>>), EqConstSize).ctx)

(***************************************************************************)
(* C20.  Every arithmetic and relational BinOp other than And and Or       *)
(* evaluates both operands, the left before the right, in every evaluation *)
(* that gets past the cost charge and whose left operand evaluates to a    *)
(* value, of whatever kind that value is: the right operand is entered     *)
(* after every node of the left one, and the context the evaluation leaves *)
(* holds the right operand's visits and cost.                              *)
(***************************************************************************)
C20_BothOperandsEvaluated ==
    (/\ Done /\ expr.node = "BinOp" /\ WithinCost
     /\ expr.kind \notin {Relation("And"), Relation("Or")}
     /\ LeftOut.res.kind = "Ok") =>
        /\ VisitsOf(<<"right">>) # {}
        /\ \A i \in VisitsBelow("left"), j \in VisitsBelow("right") : i < j
        /\ ctx = Expr_eval(expr.right, <<"right">>, LeftOut.ctx).ctx

(***************************************************************************)
(* The cost of an evaluation, read off its history.                        *)
(***************************************************************************)
\* the node of the root expression a path of the history leads to
RECURSIVE NodeAt(_, _)
NodeAt(e, path) == IF path = <<>> THEN e ELSE NodeAt(e[Head(path)], Tail(path))

\* the per-node costs of the first n nodes of a history
RECURSIVE CostOfVisits(_, _, _)
CostOfVisits(e, visited, n) ==
    IF n = 0 THEN 0
    ELSE CostOfVisits(e, visited, n - 1) + NodeCost(NodeAt(e, visited[n]))

\* the root If's condition, evaluated
CondOut == Expr_eval(expr.condition, <<"condition">>, Entered(StartCtx, <<>>))

(***************************************************************************)
(* C21.  After an evaluation, cost_accum (which starts at 0) is the sum of *)
(* the per-node costs of exactly the nodes visited, each visited once: a   *)
(* short-circuited And / Or has charged its own cost and its left          *)
(* operand's, nothing for the right operand; an If has charged nothing for *)
(* its untaken branch; and cost_accum does not decrease from the start of  *)
(* the evaluation to the end of the first operand (or condition) to the    *)
(* end of the evaluation.                                                  *)
(***************************************************************************)
C21_CostIsSumOfVisited ==
    Done =>
        /\ ctx.cost_accum = CostOfVisits(expr, ctx.visited, Len(ctx.visited))
        /\ \A i, j \in 1..Len(ctx.visited) : ctx.visited[i] = ctx.visited[j] => i = j
        /\ StartCtx.cost_accum = 0 /\ ctx.cost_accum >= 0
        /\ (expr.node = "BinOp" /\ WithinCost) =>
               /\ EqConstSize <= LeftOut.ctx.cost_accum
               /\ LeftOut.ctx.cost_accum <= ctx.cost_accum
               /\ (/\ expr.kind \in {Relation("And"), Relation("Or")}
                   /\ LeftOut.res = Ok(Boolean(expr.kind.op = "Or"))) =>
                      /\ ctx.cost_accum = LeftOut.ctx.cost_accum
                      /\ VisitsBelow("right") = {}
        /\ expr.node = "If" =>
               /\ CondOut.ctx.cost_accum <= ctx.cost_accum
               /\ CondOut.res = Ok(Boolean(TRUE)) =>
                      /\ VisitsBelow("false_branch") = {}
                      /\ ctx.cost_accum = Expr_eval(expr.true_branch, <<"true_branch">>,
                                                    CondOut.ctx).ctx.cost_accum
               /\ CondOut.res = Ok(Boolean(FALSE)) =>
                      /\ VisitsBelow("true_branch") = {}
                      /\ ctx.cost_accum = Expr_eval(expr.false_branch, <<"false_branch">>,
                                                    CondOut.ctx).ctx.cost_accum

\* Or(true, 1 / 0) under an If whose untaken branch is a BinOp: two BinOps
\* are charged, the division and the untaken branch are not
C21_Witness ==
    /\ Done
    /\ expr = If(BinOp(Relation("Or"), Const(Boolean(TRUE)), DivByZero("Int")),
                 BinOp(Arith("Plus"), Const(LongV(1)), Const(LongV(1))),
                 DivByZero("Long"))
    /\ ctx.cost_limit = NoLimit
    /\ ctx.cost_accum = 2 * EqConstSize
    /\ result = Ok(LongV(2))

\* the root BinOp's right operand, evaluated in the context its left operand left
RightOut == Expr_eval(expr.right, <<"right">>, LeftOut.ctx)

\* the branch of the root If a boolean condition selects, evaluated
BranchOut(b) ==
    IF b THEN Expr_eval(expr.true_branch, <<"true_branch">>, CondOut.ctx)
    ELSE Expr_eval(expr.false_branch, <<"false_branch">>, CondOut.ctx)

\* no node of either branch of the root If was entered
NoBranchEntered == VisitsBelow("true_branch") = {} /\ VisitsBelow("false_branch") = {}

(***************************************************************************)
(* C22.  A failure leaves the evaluator as it is, without recovery and     *)
(* without a partial result.  When the condition of an If fails, the If    *)
(* returns that failure and enters neither branch; when the condition's    *)
(* value is no boolean, the If fails with UnexpectedValue and enters       *)
(* neither branch; when the branch evaluated fails, the If returns that    *)
(* failure.  When the left operand of a BinOp fails, the BinOp returns     *)
(* that failure and does not enter the right operand; when the right       *)
(* operand is evaluated and fails, the BinOp returns that failure.  A      *)
(* result that is not Ok carries no value.                                 *)
(***************************************************************************)
C22_ErrorsPropagate ==
    Done =>
        /\ result.kind # "Ok" => result.val = Unit
        /\ expr.node = "If" =>
               /\ CondOut.res.kind # "Ok" =>
                      result = CondOut.res /\ ctx = CondOut.ctx /\ NoBranchEntered
               /\ (CondOut.res.kind = "Ok" /\ CondOut.res.val.tag # "Boolean") =>
                      /\ result = Err("UnexpectedValue")
                      /\ ctx = CondOut.ctx
                      /\ NoBranchEntered
               /\ \A b \in BOOLEAN :
                      (CondOut.res = Ok(Boolean(b)) /\ BranchOut(b).res.kind # "Ok") =>
                          result = BranchOut(b).res /\ ctx = BranchOut(b).ctx
        /\ (expr.node = "BinOp" /\ WithinCost) =>
               /\ LeftOut.res.kind # "Ok" =>
                      /\ result = LeftOut.res
                      /\ ctx = LeftOut.ctx
                      /\ VisitsBelow("right") = {}
               /\ (/\ LeftOut.res.kind = "Ok"
                   /\ VisitsOf(<<"right">>) # {}
                   /\ RightOut.res.kind # "Ok") =>
                      result = RightOut.res /\ ctx = RightOut.ctx

\* a division by zero on the left: the right operand's overflow is never reached
C22_Witness ==
    /\ Done
    /\ expr = BinOp(Relation("Eq"), DivByZero("Long"), Overflow("Int"))
    /\ ctx.cost_limit = NoLimit
    /\ result = Err("ArithmeticException")
    /\ ctx.visited = << <<>>, <<"left">>, <<"left", "left">>, <<"left", "right">> >>

(***************************************************************************)
(* C23.  UnsignedTransaction::new never panics: the unwrap of              *)
(* Transaction::new inside to_tx_wo_proofs never meets a serialization     *)
(* error, because whenever to_tx_wo_proofs runs the transaction has been   *)
(* serialized before; a construction from vectors within the bounds whose  *)
(* inputs or outputs cannot be serialized returns                          *)
(* Err(SigmaSerializationError), and no construction, from vectors or from *)
(* JSON, and no bytes_to_sign ends in a panic.                             *)
(***************************************************************************)
C23_NewNeverPanics ==
    /\ unsigned_tx.kind # "Panic"
    /\ rebuilt.kind # "Panic"
    /\ from_json.kind # "Panic"
    /\ \A i \in 1..Len(to_sign) : to_sign[i].kind # "Panic"
    /\ (unsigned_tx # NoResult /\ FitsNew(tx_vecs) /\ ~Serializable) =>
           unsigned_tx = Err("SigmaSerializationError")
=============================================================================
